---- MODULE Spec2Model ----
(***************************************************************************)
(* vex-pm install pipeline: Resolver, Fetcher, Linker, LockfileManager and *)
(* installCommand, modelled as state machines over an abstract file system *)
(* and an abstract registry.                                               *)
(*                                                                         *)
(* Scheduling model (Node.js): code between two awaits runs atomically.    *)
(* A continuation whose promise is already settled is a microtask; the     *)
(* microtask queue is FIFO and is drained before the next I/O callback     *)
(* (network response, gunzip completion) runs.  The order of I/O callbacks *)
(* is nondeterministic.                                                    *)
(***************************************************************************)
EXTENDS Integers, Sequences, FiniteSets, TLC

VARIABLES
  manifest,      \* package.json of the project (PackageJson)
  rc,            \* RegistryClient.fetch call: attempts made, waits, outcome
  sv,            \* semver call: version, range, version list and the values returned
  rs,            \* Resolver objects: run -> resolver state
  frozen,        \* installCommand: ctx.flags.frozen || config.frozen
  pc,            \* installCommand: position in the pipeline
  exitCode,      \* installCommand: returned value (-1 while running, 2 = uncaught rejection)
  lockfile,      \* vex-lock.json on disk (NoLock when absent)
  lockTmp,       \* content of the temp file of an atomicWrite in progress
  lockRead,      \* what the latest read() of another process returned
  lockWrites,    \* number of LockfileManager.write calls so far
  packages,      \* installCommand: the `packages` map (sequence in insertion order)
  fetchResults,  \* installCommand: result of fetcher.fetchAll
  linkResult,    \* installCommand: result of linker.link
  fx,            \* Fetcher.fetchAll invocation: package list, batches, per-package tasks
  store,         \* global store: store path -> directory state
  tarballs,      \* tarball cache: cache path -> bytes
  tree           \* project node_modules tree

vars == <<manifest, rc, sv, rs, frozen, pc, exitCode, lockfile, lockTmp, lockRead, lockWrites, packages,
          fetchResults, linkResult, fx, store, tarballs, tree>>

installVars == <<frozen, pc, exitCode, lockfile, lockTmp, lockRead, lockWrites, packages, fetchResults, linkResult>>
fetchVars   == <<fx, store, tarballs>>

(***************************************************************************)
(* Bounds                                                                  *)
(***************************************************************************)
MaxFetchAll == 2      \* fetchAll invocations in the Fetcher specification

MaxBatched == 33      \* packages for which the batching is evaluated
MaxRetries == 6         \* greatest `retries` option of a RegistryClient
MaxVersions == 2        \* versions in a list handed to maxSatisfying
MaxFlat == 2            \* packages of a flat map handed to LockfileManager.write

(***************************************************************************)
(* Generic helpers                                                         *)
(***************************************************************************)
Ran(f) == {f[i] : i \in DOMAIN f}

Front(q) == SubSeq(q, 1, Len(q) - 1)

Min(a, b) == IF a < b THEN a ELSE b

RECURSIVE SeqFilter(_, _)
SeqFilter(q, S) ==
  IF q = <<>> THEN <<>>
  ELSE IF Head(q) \in S THEN <<Head(q)>> \o SeqFilter(Tail(q), S)
       ELSE SeqFilter(Tail(q), S)

(***************************************************************************)
(* Semver (core/semver.ts)                                                 *)
(* A version is <<major, minor, patch, prerelease>>; prerelease is a       *)
(* sequence of numeric identifiers.                                        *)
(***************************************************************************)
V(ma, mi, pa) == <<ma, mi, pa, <<>>>>

RECURSIVE comparePre(_, _, _)
comparePre(pa, pb, i) ==
  IF i > Len(pa) /\ i > Len(pb) THEN 0
  ELSE IF i > Len(pa) THEN -1
  ELSE IF i > Len(pb) THEN 1
  ELSE IF pa[i] # pb[i] THEN (IF pa[i] > pb[i] THEN 1 ELSE -1)
  ELSE comparePre(pa, pb, i + 1)

compare(a, b) ==
  IF a[1] # b[1] THEN (IF a[1] > b[1] THEN 1 ELSE -1)
  ELSE IF a[2] # b[2] THEN (IF a[2] > b[2] THEN 1 ELSE -1)
  ELSE IF a[3] # b[3] THEN (IF a[3] > b[3] THEN 1 ELSE -1)
  ELSE IF Len(a[4]) = 0 /\ Len(b[4]) > 0 THEN 1
  ELSE IF Len(a[4]) > 0 /\ Len(b[4]) = 0 THEN -1
  ELSE comparePre(a[4], b[4], 1)

\* A range is [kind, v]: kind "*", "" (the empty string), "latest", "^", "~"
\* or "=".
\* parseRange returns the OR-list of AND-lists of comparators.
Caret(v) == [kind |-> "^", v |-> v]
Tilde(v) == [kind |-> "~", v |-> v]
Exact(v) == [kind |-> "=", v |-> v]
Star     == [kind |-> "*", v |-> V(0, 0, 0)]
Empty    == [kind |-> "", v |-> V(0, 0, 0)]
Latest   == [kind |-> "latest", v |-> V(0, 0, 0)]

caretUpper(v) ==
  IF v[1] # 0 THEN <<v[1] + 1, 0, 0, <<>>>>
  ELSE IF v[2] # 0 THEN <<v[1], v[2] + 1, 0, <<>>>>
  ELSE <<v[1], v[2], v[3] + 1, <<>>>>

parseRange(range) ==
  CASE range.kind \in {"*", ""} -> << <<>> >>
    [] range.kind = "latest" -> << <<>> >>
    [] range.kind = "^" -> << << [operator |-> ">=", semver |-> range.v],
                                 [operator |-> "<",  semver |-> caretUpper(range.v)] >> >>
    [] range.kind = "~" -> << << [operator |-> ">=", semver |-> range.v],
                                 [operator |-> "<",
                                  semver |-> <<range.v[1], range.v[2] + 1, 0, <<>>>>] >> >>
    [] OTHER            -> << << [operator |-> "=", semver |-> range.v] >> >>

testComparator(semver, comp) ==
  LET cmp == compare(semver, comp.semver) IN
  CASE comp.operator = "="  -> cmp = 0
    [] comp.operator = ">"  -> cmp > 0
    [] comp.operator = "<"  -> cmp < 0
    [] comp.operator = ">=" -> cmp >= 0
    [] comp.operator = "<=" -> cmp <= 0
    [] OTHER -> FALSE

\* One OR group of satisfies(): TRUE when the loop body returns true for it.
groupMatches(semver, comparators) ==
  IF Len(comparators) = 0 THEN TRUE
  ELSE
    LET allMatch == \A i \in DOMAIN comparators : testComparator(semver, comparators[i])
        hasMatchingPrerelease ==
          \E i \in DOMAIN comparators :
            /\ Len(semver[4]) > 0 /\ Len(comparators[i].semver[4]) > 0
            /\ semver[1] = comparators[i].semver[1]
            /\ semver[2] = comparators[i].semver[2]
            /\ semver[3] = comparators[i].semver[3]
        rangeHasPrerelease ==
          \E i \in DOMAIN comparators : Len(comparators[i].semver[4]) > 0
    IN allMatch /\ (Len(semver[4]) > 0 /\ ~hasMatchingPrerelease => rangeHasPrerelease)

satisfies(version, range) ==
  LET set == parseRange(range) IN
  \E g \in DOMAIN set : groupMatches(version, set[g])

NoVersion == <<>>

minSatisfying(versions, range) ==
  LET matching == {v \in versions : satisfies(v, range)} IN
  IF matching = {} THEN NoVersion
  ELSE CHOOSE v \in matching : \A w \in matching : compare(v, w) <= 0

maxSatisfying(versions, range) ==
  LET matching == {v \in versions : satisfies(v, range)} IN
  IF matching = {} THEN NoVersion
  ELSE CHOOSE v \in matching : \A w \in matching : compare(v, w) >= 0

\* No call of satisfies / maxSatisfying made.
NoSemver == [st |-> "idle", version |-> V(0, 0, 0), range |-> Star, versions |-> {},
             result |-> FALSE, best |-> NoVersion]

(***************************************************************************)
(* Registry contents (abbreviated documents).  Dependency maps are         *)
(* sequences of <<name, range>> in declaration order (Object.entries).     *)
(***************************************************************************)
Bytes(name, version) == [of |-> <<name, version>>, rev |-> 0]

Dist(name, version) ==
  [tarball |-> <<name, version>>,
   integrity |-> [algo |-> "sha512", enc |-> "base64", of |-> Bytes(name, version)]]

VD(name, version, deps, opt) ==
  [dependencies |-> deps, optionalDependencies |-> opt, peerDependencies |-> <<>>,
   peerOptional |-> {}, bin |-> <<>>, deprecated |-> FALSE, dist |-> Dist(name, version)]

Registry ==
  [n \in {"A", "B", "C", "D", "F", "G", "H", "O", "Y"} |->
    CASE n = "A" -> (V(1,0,0) :> VD("A", V(1,0,0), << <<"B", Caret(V(1,0,0))>> >>, <<>>))
                 @@ (V(1,1,0) :> VD("A", V(1,1,0), << <<"B", Caret(V(1,0,0))>>,
                                                      <<"C", Caret(V(2,0,0))>> >>, <<>>))
      [] n = "B" -> (V(1,0,0) :> VD("B", V(1,0,0), <<>>, <<>>))
                 @@ (V(1,0,5) :> VD("B", V(1,0,5), <<>>, <<>>))
      [] n = "C" -> (V(2,0,1) :> [VD("C", V(2,0,1), <<>>, <<>>) EXCEPT !.deprecated = TRUE])
      [] n = "D" -> (V(1,0,0) :> [VD("D", V(1,0,0), << <<"B", Caret(V(1,0,0))>> >>, <<>>)
                                    EXCEPT !.bin = << <<"d", "index.js">> >>])
      [] n = "F" -> (V(1,0,0) :> VD("F", V(1,0,0), << <<"G", Caret(V(1,0,0))>> >>, <<>>))
      [] n = "G" -> (V(1,0,0) :> VD("G", V(1,0,0), << <<"F", Tilde(V(1,0,0))>>,
                                                      <<"H", Caret(V(1,0,0))>> >>, <<>>))
      [] n = "H" -> (V(1,0,0) :> VD("H", V(1,0,0), << <<"H", Caret(V(1,0,0))>>,
                                                      <<"F", Caret(V(1,0,0))>> >>, <<>>))
      [] n = "O" -> (V(1,0,0) :> VD("O", V(1,0,0), << <<"B", Caret(V(1,0,0))>>,
                                                      <<"X", Caret(V(1,0,0))>> >>, <<>>))
      [] n = "Y" -> (V(1,0,0) :> VD("Y", V(1,0,0), << <<"B", Exact(V(1,0,0))>> >>,
                                                   << <<"C", Caret(V(3,0,0))>> >>))]

Names == DOMAIN Registry \cup {"E", "X"}

(***************************************************************************)
(* RegistryClient (registry client)                                        *)
(* A fetch call is [retries, st, attempt, log, delays, lastError]: log is  *)
(* the outcome of each doFetch made, delays the sleeps made, in order.     *)
(* An outcome is [status, error]: the status code of a response (0 when    *)
(* there is none) and the error of the request ("" when it has one).       *)
(***************************************************************************)
DefaultRetries == 3

NoError == [status |-> 0, error |-> ""]

NoCall == [retries |-> DefaultRetries, st |-> "idle", attempt |-> 0, log |-> <<>>,
           delays |-> <<>>, lastError |-> NoError]

\* What one request can end in: a response, a connection error, a timeout.
Outcomes ==
  {[status |-> c, error |-> ""] : c \in {200, 304, 404, 500, 503}}
    \cup {[status |-> 0, error |-> e] : e \in {"connection", "timeout"}}

\* new RegistryClient(options): this.retries = options.retries || 3
newRegistryClient(retries) ==
  [NoCall EXCEPT !.retries = IF retries = 0 THEN DefaultRetries ELSE retries]

\* doFetch rejects on 'error', on 'timeout' and on a status code >= 400.
doFetchRejects(outcome) == outcome.error # "" \/ outcome.status >= 400

RECURSIVE pow2(_)
pow2(k) == IF k = 0 THEN 1 ELSE 2 * pow2(k - 1)

backoff(attempt) == Min(1000 * pow2(attempt), 10000)

\* The loop of fetch: top of an iteration, or the throw after the loop.
loopFetch(c) ==
  IF c.attempt < c.retries THEN [c EXCEPT !.st = "requesting"]
  ELSE [c EXCEPT !.st = "thrown"]

\* One doFetch settles with the outcome.
doFetchSettled(c, outcome) ==
  LET logged == [c EXCEPT !.log = Append(@, outcome)] IN
  IF ~doFetchRejects(outcome) THEN [logged EXCEPT !.st = "returned"]
  ELSE
    LET caught == [logged EXCEPT !.lastError = outcome] IN
    IF c.attempt < c.retries - 1
      THEN [caught EXCEPT !.st = "sleeping", !.delays = Append(@, backoff(c.attempt))]
      ELSE loopFetch([caught EXCEPT !.attempt = @ + 1])

\* The sleep ends: attempt++ and the next iteration.
sleepEnded(c) == loopFetch([c EXCEPT !.attempt = @ + 1])

(***************************************************************************)
(* Resolver (core/resolver.ts)                                             *)
(*                                                                         *)
(* A resolver state s is a record:                                         *)
(*   opts          ResolverOptions                                         *)
(*   tasks         resolveDependency calls: id -> call record; the id is   *)
(*                 the path of declared names from the manifest            *)
(*   ready         microtask queue: calls whose metadata promise settled   *)
(*   inflight      registry requests in flight: issuer id -> the calls     *)
(*                 awaiting that promise, in registration order            *)
(*   resolving     this.resolving: name -> issuer id of the pending promise*)
(*   metadataCache this.metadataCache (names; the document is Registry[n]) *)
(*   diskCache     MetadataCache entries on disk that are within the TTL   *)
(*   resolved      this.resolved, the flat map, in insertion order         *)
(*   errors, warnings, root, called, returned, requests (issued so far)    *)
(***************************************************************************)
Key(pkg) == <<pkg.name, pkg.version>>

Keys(flat) == {Key(flat[i]) : i \in DOMAIN flat}

Lookup(flat, key) == flat[CHOOSE i \in DOMAIN flat : Key(flat[i]) = key]

NewResolver(opts, disk) ==
  [opts |-> opts, tasks |-> <<>>, ready |-> <<>>, inflight |-> <<>>, resolving |-> <<>>,
   metadataCache |-> {}, diskCache |-> disk, resolved |-> <<>>, errors |-> <<>>,
   warnings |-> <<>>, root |-> {}, called |-> FALSE, returned |-> FALSE, requests |-> <<>>]

Children(s, p) == {u \in DOMAIN s.tasks : Len(u) = Len(p) + 1 /\ Front(u) = p}

Directs(s) == {u \in DOMAIN s.tasks : Len(u) = 1}

Settled(s, u) == s.tasks[u].st \in {"fulfilled", "rejected"}

\* The catch block of the transitive wrapper swallows the child's error.
Swallowed(s, u) ==
  \/ s.tasks[u].optional
  \/ s.tasks[u].peer /\ ~s.opts.strictPeerDependencies

\* Promise.all(transitiveDeps.map(...)) of call p is fulfilled.
AllChildrenOk(s, p) ==
  \A u \in Children(s, p) :
    \/ s.tasks[u].st = "fulfilled"
    \/ s.tasks[u].st = "rejected" /\ Swallowed(s, u)

\* Settlement of call t and of every promise that settles as a consequence:
\* the try/catch wrappers of resolveDependency (lines 231-255) and of
\* resolve (lines 95-118).
SettleCallOnly(s, t, outcome) == [s EXCEPT !.tasks[t].st = outcome]

RECURSIVE Settle(_, _, _)
Settle(s, t, outcome) ==
  LET task == s.tasks[t]
      s1 == [s EXCEPT !.tasks[t].st = outcome]
  IN
  IF Len(t) = 1 THEN
    LET s2 == IF outcome = "fulfilled" THEN [s1 EXCEPT !.root = @ \cup {task.name}]
              ELSE IF task.optional
                THEN [s1 EXCEPT !.warnings = Append(@, [kind |-> "optional", name |-> task.name, of |-> "root"])]
                ELSE [s1 EXCEPT !.errors = Append(@, [kind |-> "failed", name |-> task.name])]
    IN [s2 EXCEPT !.returned = \A d \in Directs(s2) : Settled(s2, d)]
  ELSE
    LET p == Front(t)
        pname == s.tasks[p].name
        s2 == IF outcome = "fulfilled" THEN s1
              ELSE IF task.optional
                THEN [s1 EXCEPT !.warnings = Append(@, [kind |-> "optional", name |-> task.name, of |-> pname])]
              ELSE IF task.peer /\ ~s.opts.strictPeerDependencies
                THEN [s1 EXCEPT !.warnings = Append(@, [kind |-> "peer", name |-> task.name, of |-> pname])]
              ELSE s1
        rethrown == outcome = "rejected" /\ ~Swallowed(s, t)
    IN IF s2.tasks[p].st # "running" THEN s2
       ELSE IF rethrown THEN Settle(s2, p, "rejected")
       ELSE IF AllChildrenOk(s2, p) THEN Settle(s2, p, "fulfilled")
       ELSE s2

\* getMetadata up to its first await, for the call id.
getMetadataUncoalesced(s, id) ==
  LET name == s.tasks[id].name IN
  IF name \in s.metadataCache THEN
    [s EXCEPT !.tasks[id].st = "ready", !.tasks[id].meta = TRUE, !.ready = Append(@, id)]
  ELSE IF s.opts.preferOffline /\ name \in s.diskCache THEN
    [s EXCEPT !.metadataCache = @ \cup {name},
              !.tasks[id].st = "ready", !.tasks[id].meta = TRUE, !.ready = Append(@, id)]
  ELSE
    [s EXCEPT !.resolving = (name :> id) @@ @,
              !.inflight = (id :> <<id>>) @@ @,
              !.requests = Append(@, name)]

getMetadata(s, id) ==
  LET name == s.tasks[id].name IN
  IF name \in s.metadataCache THEN
    [s EXCEPT !.tasks[id].st = "ready", !.tasks[id].meta = TRUE, !.ready = Append(@, id)]
  ELSE IF name \in DOMAIN s.resolving THEN
    [s EXCEPT !.inflight[s.resolving[name]] = Append(@, id)]
  ELSE IF s.opts.preferOffline /\ name \in s.diskCache THEN
    [s EXCEPT !.metadataCache = @ \cup {name},
              !.tasks[id].st = "ready", !.tasks[id].meta = TRUE, !.ready = Append(@, id)]
  ELSE
    [s EXCEPT !.resolving = (name :> id) @@ @,
              !.inflight = (id :> <<id>>) @@ @,
              !.requests = Append(@, name)]

\* resolveDependency up to `await this.getMetadata(name)` (lines 139-148).
\* dep is [name, range, optional, peer]; a re-entry returns null (no call).
resolveDependencyStart(s, id, dep, dev, seen) ==
  LET key == <<dep.name, dep.range>> IN
  IF key \in seen THEN s
  ELSE getMetadata(
         [s EXCEPT !.tasks = (id :> [name |-> dep.name, range |-> dep.range, dev |-> dev,
                                     optional |-> dep.optional, peer |-> dep.peer,
                                     seen |-> seen \cup {key}, st |-> "waiting",
                                     meta |-> FALSE]) @@ @],
         id)

RECURSIVE StartAll(_, _, _, _, _)
StartAll(s, parent, deps, dev, seen) ==
  IF deps = <<>> THEN s
  ELSE LET d == Head(deps) IN
       StartAll(resolveDependencyStart(s, Append(parent, d.name), d,
                                       IF parent = <<>> THEN d.dev ELSE dev, seen),
                parent, Tail(deps), dev, seen)

DepList(entries, optional, peer, dev) ==
  [i \in DOMAIN entries |-> [name |-> entries[i][1], range |-> entries[i][2],
                             optional |-> optional, peer |-> peer, dev |-> dev]]

\* transitiveDeps of a version record (lines 207-229).
transitiveDeps(s, versionData) ==
  LET peers == versionData.peerDependencies
      wanted == {i \in DOMAIN peers :
                   peers[i][1] \notin versionData.peerOptional \/ s.opts.strictPeerDependencies}
      peerList == [i \in DOMAIN peers |->
                     [name |-> peers[i][1], range |-> peers[i][2],
                      optional |-> peers[i][1] \in versionData.peerOptional,
                      peer |-> TRUE, dev |-> FALSE]]
  IN DepList(versionData.dependencies, FALSE, FALSE, FALSE)
     \o DepList(versionData.optionalDependencies, TRUE, FALSE, FALSE)
     \o (IF s.opts.autoInstallPeers
           THEN SeqFilter(peerList, {peerList[i] : i \in wanted})
           ELSE <<>>)

normalizeBin(name, bin) == bin

\* The record inserted into this.resolved (lines 179-190).
resolvedPkg(name, version, versionData, optional, dev) ==
  [name |-> name, version |-> version,
   resolved |-> versionData.dist.tarball,
   integrity |-> versionData.dist.integrity,
   dependencies |-> versionData.dependencies,
   peerDependencies |-> versionData.peerDependencies,
   optionalDependencies |-> versionData.optionalDependencies,
   bin |-> normalizeBin(name, versionData.bin),
   optional |-> optional, dev |-> dev]

\* this.resolved.set(resolvedKey, resolvedPkg): a Map keeps the position of
\* an existing key and appends a new one.
MapSet(flat, pkg) ==
  IF Key(pkg) \in Keys(flat)
    THEN [i \in DOMAIN flat |-> IF Key(flat[i]) = Key(pkg) THEN pkg ELSE flat[i]]
    ELSE Append(flat, pkg)

\* resolveDependency from the return of getMetadata to its next await or
\* its return (lines 149-257), for the call t at the head of the queue.
resolveDependencyNoReuse(s, t) ==
  LET task == s.tasks[t]
      name == task.name
      bestVersion == maxSatisfying(DOMAIN Registry[name], task.range)
  IN
  IF ~task.meta THEN Settle(s, t, "rejected")
  ELSE IF bestVersion = NoVersion THEN Settle(s, t, "rejected")
  ELSE
    LET versionData == Registry[name][bestVersion]
        s1 == IF versionData.deprecated
                THEN [s EXCEPT !.warnings = Append(@, [kind |-> "deprecated", name |-> name, of |-> "root"])]
                ELSE s
        s2 == [s1 EXCEPT !.resolved = MapSet(@, resolvedPkg(name, bestVersion, versionData,
                                                            task.optional, task.dev)),
                        !.tasks[t].st = "running"]
        s3 == StartAll(s2, t, transitiveDeps(s, versionData), task.dev, task.seen)
    IN IF AllChildrenOk(s3, t) THEN Settle(s3, t, "fulfilled") ELSE s3

resolveDependency(s, t) ==
  LET task == s.tasks[t]
      name == task.name
      bestVersion == maxSatisfying(DOMAIN Registry[name], task.range)
  IN
  IF ~task.meta THEN Settle(s, t, "rejected")
  ELSE IF bestVersion = NoVersion THEN Settle(s, t, "rejected")
  ELSE IF <<name, bestVersion>> \in Keys(s.resolved) THEN Settle(s, t, "fulfilled")
  ELSE
    LET versionData == Registry[name][bestVersion]
        s1 == IF versionData.deprecated
                THEN [s EXCEPT !.warnings = Append(@, [kind |-> "deprecated", name |-> name, of |-> "root"])]
                ELSE s
        s2 == [s1 EXCEPT !.resolved = MapSet(@, resolvedPkg(name, bestVersion, versionData,
                                                            task.optional, task.dev)),
                        !.tasks[t].st = "running"]
        s3 == StartAll(s2, t, transitiveDeps(s, versionData), task.dev, task.seen)
    IN IF AllChildrenOk(s3, t) THEN Settle(s3, t, "fulfilled") ELSE s3

\* Resolver.resolve up to `await Promise.all(...)` (lines 64-118).
directDeps(s, packageJson) ==
  DepList(packageJson.dependencies, FALSE, FALSE, FALSE)
  \o (IF s.opts.production THEN <<>> ELSE DepList(packageJson.devDependencies, FALSE, FALSE, TRUE))
  \o DepList(packageJson.optionalDependencies, TRUE, FALSE, FALSE)

resolve(s, packageJson) ==
  LET s1 == [s EXCEPT !.errors = <<>>, !.warnings = <<>>, !.resolved = <<>>,
                      !.root = {}, !.called = TRUE]
      s2 == StartAll(s1, <<>>, directDeps(s, packageJson), FALSE, {})
  IN [s2 EXCEPT !.returned = (Directs(s2) = {})]

\* The response to the request issued by call q arrives: fetchMetadata
\* settles (null when the registry has no such package), the issuer stores
\* the document and deletes this.resolving[name] (lines 287-296), and the
\* continuations of the awaiting calls are queued.
fetchMetadata(name) == name \in DOMAIN Registry

metadataResponseUncached(s, q) ==
  LET name == s.tasks[q].name
      ok == fetchMetadata(name)
      waiters == s.inflight[q]
      rest == DOMAIN s.inflight \ {q}
  IN [s EXCEPT
        !.metadataCache = IF ok THEN @ \cup {name} ELSE @,
        !.resolving = [n \in DOMAIN @ \ {name} |-> @[n]],
        !.inflight = [i \in rest |-> @[i]],
        !.tasks = [u \in DOMAIN @ |->
                     IF u \in Ran(waiters) THEN [@[u] EXCEPT !.st = "ready", !.meta = ok]
                     ELSE @[u]],
        !.ready = waiters]

metadataResponse(s, q) ==
  LET name == s.tasks[q].name
      ok == fetchMetadata(name)
      waiters == s.inflight[q]
      rest == DOMAIN s.inflight \ {q}
  IN [s EXCEPT
        !.metadataCache = IF ok THEN @ \cup {name} ELSE @,
        !.diskCache = IF ok THEN @ \cup {name} ELSE @,
        !.resolving = [n \in DOMAIN @ \ {name} |-> @[n]],
        !.inflight = [i \in rest |-> @[i]],
        !.tasks = [u \in DOMAIN @ |->
                     IF u \in Ran(waiters) THEN [@[u] EXCEPT !.st = "ready", !.meta = ok]
                     ELSE @[u]],
        !.ready = waiters]

(***************************************************************************)
(* Resolver actions                                                        *)
(***************************************************************************)
Runs == DOMAIN rs

\* A registry response is delivered (I/O callback: the microtask queue is empty).
\* The process runs until bin.ts calls process.exit (install.sh, bin.ts part).
Alive == pc # "done"

\* installCommand's continuation is queued: it runs before any I/O callback.
ContinuationQueued ==
  \/ pc = "resolving" /\ rs[1].returned
  \/ pc = "fetching" /\ fx.status # "running"

MetadataResponse ==
  /\ Alive /\ ~ContinuationQueued
  /\ \E r \in Runs :
       /\ rs[r].ready = <<>>
       /\ \E q \in DOMAIN rs[r].inflight :
            rs' = [rs EXCEPT ![r] = metadataResponse(rs[r], q)]
  /\ UNCHANGED <<manifest, rc, sv, installVars, fetchVars, tree>>

\* The next queued resolveDependency continuation runs.
ResolveDependency ==
  /\ Alive
  /\ \E r \in Runs :
       /\ rs[r].ready # <<>>
       /\ rs' = [rs EXCEPT ![r] = resolveDependency([rs[r] EXCEPT !.ready = Tail(@)],
                                                    Head(rs[r].ready))]
  /\ UNCHANGED <<manifest, rc, sv, installVars, fetchVars, tree>>

\* resolver.resolve(packageJson) is called on a fresh Resolver.
ResolveCall ==
  /\ \E r \in Runs :
       /\ ~rs[r].called
       /\ rs' = [rs EXCEPT ![r] = resolve(rs[r], manifest)]
  /\ UNCHANGED <<manifest, rc, sv, installVars, fetchVars, tree>>


(***************************************************************************)
(* Hashing (utils/hash.ts).  A digest is modelled by the bytes it was      *)
(* computed from (no collisions); an integrity string `algo-text` is       *)
(* [algo, enc, of]: enc is the encoding of the digest text, of the bytes.  *)
(***************************************************************************)
NoIntegrity == [algo |-> "", enc |-> "", of |-> <<>>]

Integrity(bytes) == [algo |-> "sha512", enc |-> "base64", of |-> bytes]

verifyIntegrity(data, integrity) ==
  /\ integrity.algo \in {"sha512", "sha256", "sha1"}
  /\ integrity.enc = "base64"
  /\ integrity.of = data

contentHash(data) == data

(***************************************************************************)
(* Fetcher (core/fetcher.ts)                                               *)
(*                                                                         *)
(* A fetcher state f is [x, store, tarballs]; x is one fetchAll call:      *)
(*   status   "idle" | "running" | "fulfilled" | "rejected"                *)
(*   opts     [concurrency, offline] as passed to the constructor          *)
(*   pkgs     the packages argument; batches, batch (current index)        *)
(*   tasks    fetchPackage calls: index into pkgs -> [st, tarball, cached] *)
(*   results  the results map (insertion order); failed: progress errors   *)
(* A store directory is [files, meta, from]: the payload files present,    *)
(* whether .vex-meta.json exists, and the bytes the files were extracted   *)
(* from.                                                                   *)
(***************************************************************************)
PayloadFiles == {"package.json", "index.js"}

NoBytes == <<>>

\* exec: the files of the directory whose mode has the owner-execute bit.
EmptyDir == [files |-> {}, meta |-> FALSE, from |-> NoBytes, exec |-> {}]

safeName(name) == IF name = "@s/p" THEN "+s+p" ELSE name

getStorePathShared(pkg) == <<"store">>

getStorePath(pkg) ==
  <<safeName(pkg.name), pkg.version,
    contentHash(IF pkg.integrity # NoIntegrity THEN pkg.integrity ELSE <<pkg.name, pkg.version>>)>>

getTarballPath(pkg) == <<safeName(pkg.name), pkg.version>>

verifyPackageManifestOnly(dir) == "package.json" \in dir.files

verifyPackage(dir) == dir.meta /\ "package.json" \in dir.files

DefaultConcurrency == 16

createBatchesSingle(n, batchSize, i) ==
  IF i > n THEN <<>> ELSE <<[k \in 1..(n - i + 1) |-> i + k - 1]>>

RECURSIVE createBatches(_, _, _)
createBatches(n, batchSize, i) ==
  IF i > n THEN <<>>
  ELSE <<[k \in 1..(Min(i + batchSize - 1, n) - i + 1) |-> i + k - 1]>>
       \o createBatches(n, batchSize, i + batchSize)

IdleFetch ==
  [status |-> "idle", opts |-> [concurrency |-> 0, offline |-> FALSE], pkgs |-> <<>>,
   batches |-> <<>>, batch |-> 0, tasks |-> <<>>, results |-> <<>>, failed |-> <<>>,
   calls |-> 0]

\* rmrf(storePath); mkdirp(storePath); and the call awaits extractTarball
\* (lines 127-129).
extractStart(f, i, tarball) ==
  [f EXCEPT !.store = (getStorePath(f.x.pkgs[i]) :> EmptyDir) @@ @,
            !.x.tasks[i] = [@ EXCEPT !.st = "extracting", !.tarball = tarball]]

\* The catch block of fetchPackage (lines 141-149).
fetchFailed(f, i) ==
  [f EXCEPT !.x.tasks[i].st = "failed",
            !.x.failed = Append(@, Key(f.x.pkgs[i]))]

\* fetchPackage up to its first await (lines 82-114, 126-129).
fetchPackageStart(f, i) ==
  LET pkg == f.x.pkgs[i]
      storePath == getStorePath(pkg)
      tarballPath == getTarballPath(pkg)
      f1 == [f EXCEPT !.x.tasks = (i :> [st |-> "downloading", tarball |-> NoBytes,
                                          downloaded |-> NoBytes, cached |-> FALSE]) @@ @]
  IN IF storePath \in DOMAIN f.store /\ verifyPackage(f.store[storePath])
       THEN [f1 EXCEPT !.x.tasks[i].st = "done", !.x.tasks[i].cached = TRUE]
     ELSE IF tarballPath \in DOMAIN f.tarballs
       THEN extractStart(f1, i, f.tarballs[tarballPath])
     ELSE IF f.x.opts.offline THEN fetchFailed(f1, i)
     ELSE f1

\* downloadTarball settled for call i (lines 114-129); data = NoBytes is a
\* rejected download; downloaded is the local variable `tarball` at line 114.
tarballDownloadedUnverified(f, i, data) ==
  LET pkg == f.x.pkgs[i]
      f1 == [f EXCEPT !.x.tasks[i].downloaded = data]
  IN IF data = NoBytes THEN fetchFailed(f1, i)
     ELSE extractStart([f1 EXCEPT !.tarballs = (getTarballPath(pkg) :> data) @@ @], i, data)

tarballDownloaded(f, i, data) ==
  LET pkg == f.x.pkgs[i]
      f1 == [f EXCEPT !.x.tasks[i].downloaded = data]
  IN IF data = NoBytes THEN fetchFailed(f1, i)
     ELSE IF pkg.integrity # NoIntegrity /\ ~verifyIntegrity(data, pkg.integrity)
       THEN fetchFailed(f1, i)
     ELSE extractStart([f1 EXCEPT !.tarballs = (getTarballPath(pkg) :> data) @@ @], i, data)

\* extractTarball settled for call i, then writeMetadata (lines 129-140).
\* Files get the mode of their tar header: 0644 in the modelled tarballs.
\* outcome: "ok", "gunzip" (decompress rejects, nothing is written),
\* "write" or "writeManifest" (extractTar throws after writing index.js,
\* or after writing package.json).
tarballExtracted(f, i, outcome) ==
  LET pkg == f.x.pkgs[i]
      storePath == getStorePath(pkg)
      data == f.x.tasks[i].tarball
      dir == IF storePath \in DOMAIN f.store THEN f.store[storePath] ELSE EmptyDir
  IN CASE outcome = "ok" ->
            [f EXCEPT !.store = (storePath :> [files |-> PayloadFiles, meta |-> TRUE,
                                               from |-> data, exec |-> {}]) @@ @,
                      !.x.tasks[i].st = "done"]
       [] outcome = "write" ->
            fetchFailed([f EXCEPT !.store = (storePath :> [files |-> dir.files \cup {"index.js"},
                                                           meta |-> dir.meta,
                                                           from |-> data, exec |-> {}]) @@ @], i)
       [] outcome = "writeManifest" ->
            fetchFailed([f EXCEPT !.store = (storePath :> [files |-> dir.files \cup {"package.json"},
                                                           meta |-> dir.meta,
                                                           from |-> data, exec |-> {}]) @@ @], i)
       [] OTHER -> fetchFailed(f, i)

FetchResult(pkg, cached) ==
  [name |-> pkg.name, version |-> pkg.version, path |-> getStorePath(pkg), fromCache |-> cached]

batchResultsOfAll(f, batch) ==
  [k \in DOMAIN batch |-> FetchResult(f.x.pkgs[batch[k]], f.x.tasks[batch[k]].cached)]

\* The results of the settled batch, in batch order (lines 68-73).
batchResults(f, batch) ==
  LET ok == {i \in Ran(batch) : f.x.tasks[i].st = "done"}
      done == SeqFilter(batch, ok)
  IN [k \in DOMAIN done |-> FetchResult(f.x.pkgs[done[k]], f.x.tasks[done[k]].cached)]

RECURSIVE StartEach(_, _)
StartEach(f, batch) ==
  IF batch = <<>> THEN f
  ELSE StartEach(fetchPackageStart(f, Head(batch)), Tail(batch))

\* The loop of fetchAll (lines 63-76): Promise.all of the current batch
\* rejects with the first rejected fetchPackage, is fulfilled when every
\* call of the batch has settled, and then the next batch is started.
RECURSIVE fetchAllStep(_)
fetchAllStep(f) ==
  IF f.x.status # "running" THEN f
  ELSE IF f.x.batch > Len(f.x.batches) THEN [f EXCEPT !.x.status = "fulfilled"]
  ELSE
    LET batch == f.x.batches[f.x.batch]
        rejected == {i \in Ran(batch) : f.x.tasks[i].st = "failed" /\ ~f.x.pkgs[i].optional}
        settled == \A i \in Ran(batch) : f.x.tasks[i].st \in {"done", "failed"}
    IN IF rejected # {} THEN [f EXCEPT !.x.status = "rejected"]
       ELSE IF ~settled THEN f
       ELSE LET f1 == [f EXCEPT !.x.results = @ \o batchResults(f, batch),
                                !.x.batch = @ + 1]
            IN IF f1.x.batch > Len(f1.x.batches) THEN [f1 EXCEPT !.x.status = "fulfilled"]
               ELSE fetchAllStep(StartEach(f1, f1.x.batches[f1.x.batch]))

\* new Fetcher(opts).fetchAll(pkgs) up to its first await.
fetchAll(f, opts, pkgs) ==
  LET concurrency == IF opts.concurrency # 0 THEN opts.concurrency ELSE DefaultConcurrency
      batches == createBatches(Len(pkgs), concurrency, 1)
      f1 == [f EXCEPT !.x = [status |-> "running", opts |-> opts, pkgs |-> pkgs,
                             batches |-> batches, batch |-> 1, tasks |-> <<>>,
                             results |-> <<>>, failed |-> <<>>, calls |-> f.x.calls + 1]]
  IN IF batches = <<>> THEN [f1 EXCEPT !.x.status = "fulfilled"]
     ELSE fetchAllStep(StartEach(f1, batches[1]))

\* The bytes a registry may serve for a tarball URL: the published bytes,
\* other bytes, or no response.
TarballResponses(url) == {[of |-> url, rev |-> 0], [of |-> url, rev |-> 1], NoBytes}

FS == [x |-> fx, store |-> store, tarballs |-> tarballs]

SetFS(f) ==
  /\ fx' = f.x
  /\ store' = f.store
  /\ tarballs' = f.tarballs

(***************************************************************************)
(* Fetcher actions                                                         *)
(***************************************************************************)
\* The registry answers the tarball request of a fetchPackage call.
TarballDownloaded ==
  /\ Alive /\ ~ContinuationQueued
  /\ \E i \in DOMAIN fx.tasks :
       /\ fx.tasks[i].st = "downloading"
       /\ \E data \in TarballResponses(fx.pkgs[i].resolved) :
            SetFS(fetchAllStep(tarballDownloaded(FS, i, data)))
  /\ UNCHANGED <<manifest, rc, sv, rs, installVars, tree>>

\* extractTarball of a fetchPackage call settles.
TarballExtracted ==
  /\ Alive /\ ~ContinuationQueued
  /\ \E i \in DOMAIN fx.tasks :
       /\ fx.tasks[i].st = "extracting"
       /\ \E outcome \in {"ok", "gunzip", "write", "writeManifest"} :
            SetFS(fetchAllStep(tarballExtracted(FS, i, outcome)))
  /\ UNCHANGED <<manifest, rc, sv, rs, installVars, tree>>

(***************************************************************************)
(* LockfileManager (core/lockfile.ts)                                      *)
(* The file is NoLock when absent, else the parsed JSON document:          *)
(* [version, dependencies, devDependencies, packages], packages being the  *)
(* sequence of <<key, LockfilePackage>> in file order.  A LockfilePackage  *)
(* is a record whose optional fields are present only when written.        *)
(***************************************************************************)
LOCKFILE_VERSION == 1

NoLock == <<>>

\* localeCompare on the keys `name@version` of the modelled packages.
NameOrder == <<"@s/p", "A", "B", "C", "D", "E", "F", "G", "H", "O", "X", "Y">>

NameRank(name) == CHOOSE i \in DOMAIN NameOrder : NameOrder[i] = name

KeyBefore(a, b) ==
  \/ NameRank(a[1]) < NameRank(b[1])
  \/ a[1] = b[1] /\ compare(a[2], b[2]) < 0

RECURSIVE SortInsert(_, _)
SortInsert(sorted, pkg) ==
  IF sorted = <<>> THEN <<pkg>>
  ELSE IF KeyBefore(Key(pkg), Key(Head(sorted))) THEN <<pkg>> \o sorted
  ELSE <<Head(sorted)>> \o SortInsert(Tail(sorted), pkg)

RECURSIVE sortedEntries(_)
sortedEntries(flat) ==
  IF flat = <<>> THEN <<>>
  ELSE SortInsert(sortedEntries(Front(flat)), flat[Len(flat)])

Field(name, value, present) == IF present THEN name :> value ELSE <<>>

lockPkg(pkg) ==
  [version |-> pkg.version, resolved |-> pkg.resolved, integrity |-> pkg.integrity]
  @@ Field("dependencies", pkg.dependencies, pkg.dependencies # <<>>)
  @@ Field("peerDependencies", pkg.peerDependencies, pkg.peerDependencies # <<>>)
  @@ Field("optionalDependencies", pkg.optionalDependencies, pkg.optionalDependencies # <<>>)
  @@ Field("bin", pkg.bin, pkg.bin # <<>>)
  @@ Field("optional", TRUE, pkg.optional)
  @@ Field("dev", TRUE, pkg.dev)

\* A name as the pieces of its string, "@" being a piece of its own, and the
\* name that a string of pieces spells ("?" for one that is no modelled name).
chars(name) == IF name = "@s/p" THEN <<"@", "s/p">> ELSE <<name>>

text(pieces) ==
  IF \E name \in Names \cup {"@s/p"} : chars(name) = pieces
  THEN CHOOSE name \in Names \cup {"@s/p"} : chars(name) = pieces
  ELSE "?"

\* The key of the flat map, `${name}@${bestVersion}`, as a string of pieces.
resolvedKey(pkg) == chars(pkg.name) \o <<"@", ToString(pkg.version)>>

\* LockfileManager.write: the document that atomicWrite puts on disk.
write(flat, packageJson) ==
  LET sorted == sortedEntries(flat) IN
  [version |-> LOCKFILE_VERSION,
   dependencies |-> packageJson.dependencies,
   devDependencies |-> packageJson.devDependencies,
   packages |-> [i \in DOMAIN sorted |-> <<resolvedKey(sorted[i]), lockPkg(sorted[i])>>]]

\* A file whose writeFileSync has not finished: a prefix of the document.
Partial(content) == [partial |-> content]

IsPartial(file) == "partial" \in DOMAIN file

exists(file) == file # NoLock

\* this.lockfilePath, and the files of the project directory that the
\* lockfile manager touches: path -> content.
lockfilePath == <<"vex-lock.json">>

tempPathInPlace(filePath) == filePath

tempPath(filePath) == filePath \o <<".tmp">>

Disk == (lockfilePath :> lockfile) @@ (tempPath(lockfilePath) :> lockTmp)

TempOf(d) ==
  IF tempPath(lockfilePath) # lockfilePath THEN d[tempPath(lockfilePath)] ELSE NoLock

\* fs.writeFileSync: the file is created or truncated, then filled.
writeFileSyncOpen(d, path, content) == [d EXCEPT ![path] = Partial(content)]

writeFileSyncEnd(d, path, content) == [d EXCEPT ![path] = content]

\* fs.renameSync: one step for every other process.
renameSync(d, from, to) ==
  IF from = to THEN d ELSE [d EXCEPT ![to] = d[from], ![from] = NoLock]

\* utils/fs.ts atomicWrite, run to its end.
atomicWrite(d, filePath, content) ==
  renameSync(writeFileSyncEnd(writeFileSyncOpen(d, tempPath(filePath), content),
                              tempPath(filePath), content),
             tempPath(filePath), filePath)

\* What a process that has not read the lockfile holds.
NoRead == [content |-> NoLock, failed |-> FALSE]

\* LockfileManager.read: NoLock stands for null.
read(file) ==
  IF ~exists(file) THEN NoLock
  ELSE IF IsPartial(file) THEN NoLock
  ELSE IF file.version # LOCKFILE_VERSION THEN NoLock
  ELSE file

OrElse(rec, field, default) == IF field \in DOMAIN rec THEN rec[field] ELSE default

\* key.lastIndexOf('@') and key.indexOf('@'), counted from 1 (0: not found).
lastIndexOf(key, piece) ==
  IF \E i \in DOMAIN key : key[i] = piece
  THEN CHOOSE i \in DOMAIN key : key[i] = piece /\ \A j \in DOMAIN key : key[j] = piece => j <= i
  ELSE 0

indexOf(key, piece) ==
  IF \E i \in DOMAIN key : key[i] = piece
  THEN CHOOSE i \in DOMAIN key : key[i] = piece /\ \A j \in DOMAIN key : key[j] = piece => i <= j
  ELSE 0

nameOfKeyFirstAt(key) ==
  LET atIndex == indexOf(key, "@") IN
  IF atIndex > 1 THEN text(SubSeq(key, 1, atIndex - 1)) ELSE text(key)

nameOfKey(key) ==
  LET atIndex == lastIndexOf(key, "@") IN
  IF atIndex > 1 THEN text(SubSeq(key, 1, atIndex - 1)) ELSE text(key)

toResolvedPackages(lock) ==
  [i \in DOMAIN lock.packages |->
    LET key == lock.packages[i][1]
        pkg == lock.packages[i][2]
    IN [name |-> nameOfKey(key), version |-> pkg.version, resolved |-> pkg.resolved,
        integrity |-> pkg.integrity,
        dependencies |-> OrElse(pkg, "dependencies", <<>>),
        peerDependencies |-> OrElse(pkg, "peerDependencies", <<>>),
        optionalDependencies |-> OrElse(pkg, "optionalDependencies", <<>>),
        bin |-> OrElse(pkg, "bin", <<>>),
        optional |-> OrElse(pkg, "optional", FALSE),
        dev |-> OrElse(pkg, "dev", FALSE)]]

\* name in entries, and entries[name], of a dependency map.
HasKey(entries, name) == \E i \in DOMAIN entries : entries[i][1] = name

MapGet(entries, name) == entries[CHOOSE i \in DOMAIN entries : entries[i][1] = name][2]

\* !map[name] of a map of range strings: the name is missing or its range
\* is the empty string.
Falsy(entries, name) == ~HasKey(entries, name) \/ MapGet(entries, name).kind = ""

isUpToDateLockSide(file, packageJson) ==
  LET lock == read(file) IN
  IF lock = NoLock THEN FALSE
  ELSE /\ \A i \in DOMAIN lock.dependencies :
            HasKey(packageJson.dependencies, lock.dependencies[i][1])
       /\ \A i \in DOMAIN lock.devDependencies :
            HasKey(packageJson.devDependencies, lock.devDependencies[i][1])

isUpToDate(file, packageJson) ==
  LET lock == read(file) IN
  IF lock = NoLock THEN FALSE
  ELSE
    LET currentDeps == packageJson.dependencies
        currentDevDeps == packageJson.devDependencies
        lockDeps == lock.dependencies
        lockDevDeps == lock.devDependencies
    IN /\ \A i \in DOMAIN currentDeps :
            /\ HasKey(lockDeps, currentDeps[i][1])
            /\ MapGet(lockDeps, currentDeps[i][1]) = currentDeps[i][2]
       /\ \A i \in DOMAIN currentDevDeps :
            /\ HasKey(lockDevDeps, currentDevDeps[i][1])
            /\ MapGet(lockDevDeps, currentDevDeps[i][1]) = currentDevDeps[i][2]
       /\ \A i \in DOMAIN lockDeps : ~Falsy(currentDeps, lockDeps[i][1])
       /\ \A i \in DOMAIN lockDevDeps : ~Falsy(currentDevDeps, lockDevDeps[i][1])

(***************************************************************************)
(* Linker (core/linker.ts)                                                 *)
(* The module tree is [exists, root, nested, bin, marker]: root maps a     *)
(* name to the package linked at node_modules/<name>, nested maps          *)
(* <<parent, name>> to the package linked at                               *)
(* node_modules/<parent>/node_modules/<name>, bin maps a binary name to    *)
(* its target.  A linked package is the FetchResult it was linked from.    *)
(***************************************************************************)
NoTree == [exists |-> FALSE, root |-> <<>>, nested |-> <<>>, bin |-> <<>>, marker |-> FALSE]

NamesOf(flat) == {flat[i].name : i \in DOMAIN flat}

\* Position of the first package of the map with a property.
FirstIndex(flat, S) == CHOOSE i \in S : \A j \in S : i <= j

ResultFor(fetched, key) ==
  fetched[CHOOSE i \in DOMAIN fetched : <<fetched[i].name, fetched[i].version>> = key]

HasResult(fetched, key) ==
  \E i \in DOMAIN fetched : <<fetched[i].name, fetched[i].version>> = key

\* this.hoistedVersions (lines 70-106): the direct-dependency version when
\* it is among the versions of the name, else the first version with the
\* greatest count.
versionCount(flat, name, version) ==
  Cardinality({i \in DOMAIN flat : flat[i].name = name /\ flat[i].version = version})

hoistedVersionsLast(flat, directDependencies) ==
  [name \in NamesOf(flat) |->
    flat[CHOOSE i \in DOMAIN flat :
           flat[i].name = name /\ \A j \in DOMAIN flat : flat[j].name = name => j <= i].version]

hoistedVersions(flat, directDependencies) ==
  [name \in NamesOf(flat) |->
    LET mine == {i \in DOMAIN flat : flat[i].name = name}
        best == {i \in mine : \A j \in mine :
                   versionCount(flat, name, flat[i].version) >= versionCount(flat, name, flat[j].version)}
    IN IF /\ HasKey(directDependencies, name)
          /\ \E i \in mine : flat[i].version = MapGet(directDependencies, name)
         THEN MapGet(directDependencies, name)
         ELSE flat[FirstIndex(flat, best)].version]

\* linkBinaries (lines 272-321) on a Unix host: the symlink in .bin, then
\* chmodSync(srcPath, 0o755) on the file inside node_modules/<name>, which
\* hardlinkDir made a hard link of the store file (lines 254-256): chmod is
\* the set of <<store path, file>> whose inode gets mode 0755.
RECURSIVE linkBinaries(_, _, _, _)
linkBinaries(st, pkg, storePath, bins) ==
  IF bins = <<>> THEN st
  ELSE LET binName == Head(bins)[1]
           binPath == Head(bins)[2]
           st1 == IF binPath \in PayloadFiles
                    THEN [st EXCEPT !.tree.bin = (binName :> <<pkg.name, binPath>>) @@ @,
                                    !.chmod = @ \cup {<<storePath, binPath>>}]
                    ELSE st
       IN linkBinaries(st1, pkg, storePath, Tail(bins))

\* linkSinglePackage (lines 187-214); st is [tree, linked, errors].
\* failing: the keys whose materialization throws (file system failure).
linkSinglePackage(st, pkg, fetched, failing) ==
  LET key == Key(pkg) IN
  IF ~HasResult(fetched, key)
    THEN [st EXCEPT !.errors = Append(@, [kind |-> "no fetch result", key |-> key])]
  ELSE IF key \in failing
    THEN [st EXCEPT !.errors = Append(@, [kind |-> "failed to link", key |-> key])]
  ELSE linkBinaries([st EXCEPT !.tree.root = (pkg.name :> ResultFor(fetched, key)) @@ @,
                               !.linked = @ + 1],
                    pkg, ResultFor(fetched, key).path, pkg.bin)

\* {...pkg.dependencies, ...pkg.peerDependencies}
MergedDeps(pkg) ==
  LET deps == pkg.dependencies
      peers == pkg.peerDependencies
      peerNames == {peers[i][1] : i \in DOMAIN peers}
      depNames == {deps[i][1] : i \in DOMAIN deps}
  IN [i \in DOMAIN deps |->
        IF deps[i][1] \in peerNames THEN <<deps[i][1], MapGet(peers, deps[i][1])>> ELSE deps[i]]
     \o SeqFilter(peers, {peers[i] : i \in {j \in DOMAIN peers : peers[j][1] \notin depNames}})

\* linkNestedDependencies (lines 130-182) for one package.
RECURSIVE linkNested(_, _, _, _, _, _, _)
linkNested(st, pkg, deps, flat, fetched, hoisted, failing) ==
  IF deps = <<>> THEN st
  ELSE
    LET depName == Head(deps)[1]
        others == IF depName \in DOMAIN hoisted
                    THEN {i \in DOMAIN flat : flat[i].name = depName
                                              /\ flat[i].version # hoisted[depName]}
                    ELSE {}
        st1 ==
          IF others = {} THEN st
          ELSE LET neededVersion == flat[FirstIndex(flat, others)].version
                   key == <<depName, neededVersion>>
               IN IF ~HasResult(fetched, key) THEN st
                  ELSE IF key \in failing
                    THEN [st EXCEPT !.errors = Append(@, [kind |-> "failed to link nested",
                                                          key |-> key])]
                  ELSE [st EXCEPT !.tree.nested = (<<pkg.name, depName>> :> ResultFor(fetched, key)) @@ @,
                                  !.linked = @ + 1]
    IN linkNested(st1, pkg, Tail(deps), flat, fetched, hoisted, failing)

linkNestedDependencies(st, pkg, flat, fetched, hoisted, failing) ==
  IF pkg.name \notin DOMAIN st.tree.root THEN st
  ELSE linkNested(st, pkg, MergedDeps(pkg), flat, fetched, hoisted, failing)

RECURSIVE linkHoisted(_, _, _, _, _, _)
linkHoisted(st, flat, i, fetched, hoisted, failing) ==
  IF i > Len(flat) THEN st
  ELSE linkHoisted(IF hoisted[flat[i].name] = flat[i].version
                     THEN linkSinglePackage(st, flat[i], fetched, failing)
                     ELSE st,
                   flat, i + 1, fetched, hoisted, failing)

RECURSIVE linkAllNested(_, _, _, _, _, _)
linkAllNested(st, flat, i, fetched, hoisted, failing) ==
  IF i > Len(flat) THEN st
  ELSE linkAllNested(linkNestedDependencies(st, flat[i], flat, fetched, hoisted, failing),
                     flat, i + 1, fetched, hoisted, failing)

\* The store after the chmod calls of a link.
chmodSync(dirs, chmod) ==
  [sp \in DOMAIN dirs |->
    [dirs[sp] EXCEPT !.exec = @ \cup {c[2] : c \in {x \in chmod : x[1] = sp}}]]

linkOnce(t, flat, fetched, directDependencies, failing) ==
  LET hoisted == hoistedVersions(flat, directDependencies)
      st0 == [tree |-> [exists |-> TRUE, root |-> <<>>, nested |-> <<>>, bin |-> t.bin,
                        marker |-> t.marker],
              removed |-> DOMAIN t.root, chmod |-> {}, linked |-> 0, errors |-> <<>>]
      st1 == IF t.marker THEN st0 ELSE linkHoisted(st0, flat, 1, fetched, hoisted, failing)
      st2 == linkAllNested(st1, flat, 1, fetched, hoisted, failing)
  IN [st2 EXCEPT !.tree.marker = TRUE]

\* Linker.link (lines 45-125): the visible entries of node_modules are
\* removed (hidden ones, .bin among them, stay), hoisted packages are linked,
\* then nested ones, then the marker is written.  removed is the set of
\* entries handed to rmrf at line 61, linked is result.linked.
link(t, flat, fetched, directDependencies, failing) ==
  LET hoisted == hoistedVersions(flat, directDependencies)
      st0 == [tree |-> [exists |-> TRUE, root |-> <<>>, nested |-> <<>>, bin |-> t.bin,
                        marker |-> t.marker],
              removed |-> DOMAIN t.root, chmod |-> {}, linked |-> 0, errors |-> <<>>]
      st1 == linkHoisted(st0, flat, 1, fetched, hoisted, failing)
      st2 == linkAllNested(st1, flat, 1, fetched, hoisted, failing)
  IN [st2 EXCEPT !.tree.marker = TRUE]

(***************************************************************************)
(* Inputs                                                                  *)
(***************************************************************************)
PackageJson(deps, dev, opt) ==
  [dependencies |-> deps, devDependencies |-> dev, optionalDependencies |-> opt]

Manifests ==
  { PackageJson(<< <<"A", Caret(V(1,0,0))>> >>, <<>>, <<>>),
    PackageJson(<< <<"A", Caret(V(1,0,0))>> >>, << <<"D", Caret(V(1,0,0))>> >>, <<>>),
    PackageJson(<< <<"B", Caret(V(1,0,0))>> >>, <<>>, << <<"O", Caret(V(1,0,0))>> >>),
    PackageJson(<< <<"Y", Caret(V(1,0,0))>>, <<"A", Caret(V(1,0,0))>> >>, <<>>, <<>>),
    PackageJson(<< <<"O", Caret(V(1,0,0))>> >>, <<>>, <<>>),
    PackageJson(<< <<"D", Caret(V(1,0,0))>> >>, <<>>, << <<"X", Caret(V(1,0,0))>> >>),
    PackageJson(<< <<"A", Caret(V(1,0,0))>>, <<"E", Caret(V(1,0,0))>> >>, <<>>, <<>>) }

ResolverOptions(production, preferOffline) ==
  [production |-> production, preferOffline |-> preferOffline,
   autoInstallPeers |-> TRUE, strictPeerDependencies |-> FALSE]

\* Resolver configurations: options and the metadata cache found on disk.
ResolverSetups ==
  { <<ResolverOptions(FALSE, FALSE), {}>>,
    <<ResolverOptions(TRUE, FALSE), {}>>,
    <<ResolverOptions(FALSE, TRUE), {"B"}>> }

Pkg(name, version, rev, optional) ==
  [resolvedPkg(name, version, Registry[name][version], optional, FALSE)
     EXCEPT !.integrity = Integrity([of |-> <<name, version>>, rev |-> rev])]

\* Package lists handed to fetchAll; A@1.1.0 is listed with the integrity of
\* its first publication and with that of a republication, and one list
\* starts with an optional package.
FetchInputs ==
  { << Pkg("A", V(1,1,0), 0, FALSE), Pkg("C", V(2,0,1), 0, TRUE) >>,
    << Pkg("A", V(1,1,0), 1, FALSE) >>,
    << Pkg("B", V(1,0,5), 0, FALSE), Pkg("A", V(1,1,0), 0, FALSE),
       Pkg("C", V(2,0,1), 0, FALSE) >>,
    << Pkg("C", V(2,0,1), 0, TRUE), Pkg("B", V(1,0,5), 0, FALSE),
       Pkg("A", V(1,1,0), 0, FALSE) >> }

FetcherSetups ==
  { [concurrency |-> 0, offline |-> FALSE],
    [concurrency |-> 1, offline |-> FALSE],
    [concurrency |-> 2, offline |-> TRUE] }


InitIdle ==
  /\ frozen = FALSE
  /\ pc = "idle"
  /\ exitCode = -1
  /\ lockfile = NoLock
  /\ lockWrites = 0
  /\ lockTmp = NoLock
  /\ lockRead = NoRead
  /\ rc = NoCall
  /\ sv = NoSemver
  /\ packages = <<>>
  /\ fetchResults = <<>>
  /\ linkResult = <<>>
  /\ fx = IdleFetch
  /\ store = <<>>
  /\ tarballs = <<>>
  /\ tree = NoTree

(***************************************************************************)
(* Specification of one Resolver.resolve call                              *)
(***************************************************************************)
InitResolve ==
  /\ manifest \in Manifests
  /\ \E c \in ResolverSetups : rs = [r \in {1} |-> NewResolver(c[1], c[2])]
  /\ InitIdle

NextResolve ==
  \/ ResolveCall
  \/ MetadataResponse
  \/ ResolveDependency

SpecResolve == InitResolve /\ [][NextResolve]_vars

(***************************************************************************)
(* Specification of two Resolver.resolve calls on the same manifest and    *)
(* registry (two executions, each with its own resolver and cache)         *)
(***************************************************************************)
InitResolveTwice ==
  /\ manifest \in Manifests
  /\ \E c \in ResolverSetups : rs = [r \in {1, 2} |-> NewResolver(c[1], c[2])]
  /\ InitIdle

SpecResolveTwice == InitResolveTwice /\ [][NextResolve]_vars

(***************************************************************************)
(* Specification of one Resolver.resolve call on manifests whose           *)
(* dependency graph has cycles (F -> G -> F, G -> H -> F, H -> H).  The    *)
(* call is made, every registry request is answered (a response or the     *)
(* request timeout) and every queued continuation runs.                    *)
(***************************************************************************)
CycleManifests ==
  { PackageJson(<< <<"F", Caret(V(1,0,0))>> >>, <<>>, <<>>),
    PackageJson(<< <<"H", Caret(V(1,0,0))>> >>, <<>>, <<>>),
    PackageJson(<< <<"F", Caret(V(1,0,0))>>, <<"G", Caret(V(1,0,0))>> >>, <<>>, <<>>),
    PackageJson(<< <<"G", Caret(V(1,0,0))>> >>, << <<"H", Tilde(V(1,0,0))>> >>, <<>>),
    PackageJson(<< <<"A", Caret(V(1,0,0))>>, <<"H", Caret(V(1,0,0))>> >>, <<>>,
                << <<"O", Caret(V(1,0,0))>> >>) }

InitResolveCycle ==
  /\ manifest \in CycleManifests
  /\ \E c \in ResolverSetups : rs = [r \in {1} |-> NewResolver(c[1], c[2])]
  /\ InitIdle

\* NextResolve is enabled: resolve is still to be called, a continuation
\* is queued or a registry request is in flight.
ResolveEnabled ==
  \/ ~rs[1].called
  \/ rs[1].ready # <<>>
  \/ DOMAIN rs[1].inflight # {}

\* Weak fairness of NextResolve, WF_vars(NextResolve), written with the
\* enabling condition of NextResolve.
SpecResolveCycle ==
  /\ InitResolveCycle
  /\ [][NextResolve]_vars
  /\ ([]<>(~ResolveEnabled) \/ []<><<NextResolve>>_vars)

(***************************************************************************)
(* Specification of the Fetcher: successive fetchAll calls (one per        *)
(* process) on a shared store and tarball cache                            *)
(***************************************************************************)
\* A process creates a Fetcher and calls fetchAll; the previous process has
\* exited (calls it left unsettled are gone).
FetchAllCall ==
  /\ fx.status # "running"
  /\ fx.calls < MaxFetchAll
  /\ \E opts \in FetcherSetups : \E pkgs \in FetchInputs :
       SetFS(fetchAll(FS, opts, pkgs))
  /\ UNCHANGED <<manifest, rc, sv, rs, installVars, tree>>

InitFetch ==
  /\ manifest = PackageJson(<<>>, <<>>, <<>>)
  /\ rs = [r \in {1} |-> NewResolver(ResolverOptions(FALSE, FALSE), {})]
  /\ InitIdle

NextFetch ==
  \/ FetchAllCall
  \/ TarballDownloaded
  \/ TarballExtracted

SpecFetch == InitFetch /\ [][NextFetch]_vars

(***************************************************************************)
(* Specification of one fetchAll call against a registry whose responses   *)
(* are fixed: the packages of a set are handed over in any order, with any *)
(* concurrency, and their downloads and extractions settle in any order.   *)
(***************************************************************************)
\* What the registry serves for a tarball URL: the tarball of C@2.0.1 is
\* gone, every other tarball is the published one.
Served(url) == IF url = <<"C", V(2,0,1)>> THEN NoBytes ELSE [of |-> url, rev |-> 0]

\* extractTarball is a function of the bytes: published tarballs unpack.
Unpacks(data) == "ok"

Orderings(list) ==
  {[i \in DOMAIN list |-> list[p[i]]] :
     p \in {q \in [DOMAIN list -> DOMAIN list] : \A i, j \in DOMAIN list : i # j => q[i] # q[j]}}

\* The sets of resolved packages: C@2.0.1 as an optional and as a required
\* package.
OrderInputs ==
  Orderings(<< Pkg("A", V(1,1,0), 0, FALSE), Pkg("B", V(1,0,5), 0, FALSE),
                  Pkg("C", V(2,0,1), 0, TRUE) >>)
    \cup Orderings(<< Pkg("A", V(1,1,0), 0, FALSE), Pkg("B", V(1,0,5), 0, FALSE),
                         Pkg("C", V(2,0,1), 0, FALSE) >>)

OrderSetups ==
  { [concurrency |-> 0, offline |-> FALSE],
    [concurrency |-> 1, offline |-> FALSE],
    [concurrency |-> 2, offline |-> FALSE] }

FetchOrderCall ==
  /\ fx.calls = 0
  /\ \E opts \in OrderSetups : \E pkgs \in OrderInputs :
       SetFS(fetchAll(FS, opts, pkgs))
  /\ UNCHANGED <<manifest, rc, sv, rs, installVars, tree>>

ServedDownloaded ==
  /\ \E i \in DOMAIN fx.tasks :
       /\ fx.tasks[i].st = "downloading"
       /\ SetFS(fetchAllStep(tarballDownloaded(FS, i, Served(fx.pkgs[i].resolved))))
  /\ UNCHANGED <<manifest, rc, sv, rs, installVars, tree>>

ServedExtracted ==
  /\ \E i \in DOMAIN fx.tasks :
       /\ fx.tasks[i].st = "extracting"
       /\ SetFS(fetchAllStep(tarballExtracted(FS, i, Unpacks(fx.tasks[i].tarball))))
  /\ UNCHANGED <<manifest, rc, sv, rs, installVars, tree>>

NextFetchOrder ==
  \/ FetchOrderCall
  \/ ServedDownloaded
  \/ ServedExtracted

SpecFetchOrder == InitFetch /\ [][NextFetchOrder]_vars

(***************************************************************************)
(* installCommand (cli/commands/install.ts)                                *)
(* pc is the position of the command: "start", "resolving" (awaiting       *)
(* resolver.resolve), "fetching" (awaiting fetcher.fetchAll) or "done"     *)
(* (the process has exited with exitCode).                                 *)
(***************************************************************************)
\* The flat sets of earlier installs, as the resolver produced them.
P(name, version) == resolvedPkg(name, version, Registry[name][version], FALSE, FALSE)

EarlierInstalls ==
  { <<PackageJson(<< <<"A", Caret(V(1,0,0))>> >>, <<>>, <<>>),
      <<P("A", V(1,1,0)), P("B", V(1,0,5)), P("C", V(2,0,1))>> >>,
    <<PackageJson(<< <<"Y", Caret(V(1,0,0))>>, <<"A", Caret(V(1,0,0))>> >>, <<>>, <<>>),
      <<P("Y", V(1,0,0)), P("A", V(1,1,0)), P("B", V(1,0,0)), P("B", V(1,0,5)),
        P("C", V(2,0,1))>> >> }

\* What may be at the lockfile path when the command starts: nothing, the
\* lockfile of an earlier install, or a file of another format version.
InitialLockfiles ==
  {NoLock}
    \cup {write(e[2], e[1]) : e \in EarlierInstalls}
    \cup {[write(e[2], e[1]) EXCEPT !.version = 2] : e \in EarlierInstalls}

\* The fetcher options built from the configuration (lines 100-107).
InstallFetcherOptions == {[concurrency |-> 0, offline |-> FALSE]}

\* `packages` of installCommand: the map read from the lockfile when frozen,
\* else the resolver's own flat map (result.flat is resolver.resolved).
installPackagesOfResolver == rs[1].resolved

installPackages == IF frozen THEN packages ELSE rs[1].resolved

\* {...packageJson.dependencies, ...packageJson.devDependencies}
allDeps(packageJson) ==
  LET deps == packageJson.dependencies
      dev == packageJson.devDependencies
      devNames == {dev[i][1] : i \in DOMAIN dev}
      depNames == {deps[i][1] : i \in DOMAIN deps}
  IN [i \in DOMAIN deps |->
        IF deps[i][1] \in devNames THEN <<deps[i][1], MapGet(dev, deps[i][1])>> ELSE deps[i]]
     \o SeqFilter(dev, {dev[i] : i \in {j \in DOMAIN dev : dev[j][1] \notin depNames}})

\* directDependencies (lines 151-165): per direct dependency the version of
\* the first package of that name that satisfies the declared range.
directDependencies(packageJson, flat) ==
  LET all == allDeps(packageJson)
      hits(i) == {j \in DOMAIN flat : flat[j].name = all[i][1]
                                       /\ satisfies(flat[j].version, all[i][2])}
      found == SeqFilter(all, {all[i] : i \in {k \in DOMAIN all : hits(k) # {}}})
  IN [i \in DOMAIN found |->
        <<found[i][1],
          flat[FirstIndex(flat, {j \in DOMAIN flat : flat[j].name = found[i][1]
                                    /\ satisfies(flat[j].version, found[i][2])})].version>>]

\* The file system failures link may meet while materializing: none, or
\* one package.
LinkFailures(flat) == {{}} \cup {{Key(flat[i])} : i \in DOMAIN flat}

\* Lines 16-73 and, when frozen, 43-57 and 95-110: the frozen check, else
\* the call of resolver.resolve.
InstallStart ==
  /\ pc = "start"
  /\ \/ /\ frozen
        /\ ~exists(lockfile) \/ ~isUpToDate(lockfile, manifest)
        /\ pc' = "done"
        /\ exitCode' = 1
        /\ UNCHANGED <<rs, packages, fetchVars>>
     \/ /\ frozen
        /\ exists(lockfile) /\ isUpToDate(lockfile, manifest)
        /\ packages' = toResolvedPackages(read(lockfile))
        /\ \E opts \in InstallFetcherOptions : SetFS(fetchAll(FS, opts, packages'))
        /\ pc' = "fetching"
        /\ UNCHANGED <<rs, exitCode>>
     \/ /\ ~frozen
        /\ rs' = [rs EXCEPT ![1] = resolve(@, manifest)]
        /\ pc' = "resolving"
        /\ UNCHANGED <<packages, exitCode, fetchVars>>
  /\ UNCHANGED <<manifest, rc, sv, frozen, lockfile, lockTmp, lockRead, lockWrites, fetchResults, linkResult, tree>>

\* Lines 73-110: resolver.resolve has returned; calls of the resolver that
\* have not settled go on.
InstallResolved ==
  /\ pc = "resolving"
  /\ rs[1].returned
  /\ IF rs[1].errors # <<>>
       THEN /\ pc' = "done"
            /\ exitCode' = 1
            /\ UNCHANGED <<packages, fetchVars>>
       ELSE /\ packages' = rs[1].resolved
            /\ \E opts \in InstallFetcherOptions : SetFS(fetchAll(FS, opts, rs[1].resolved))
            /\ pc' = "fetching"
            /\ UNCHANGED exitCode
  /\ UNCHANGED <<manifest, rc, sv, rs, frozen, lockfile, lockTmp, lockRead, lockWrites, fetchResults, linkResult, tree>>

\* Lines 110-213: fetchAll is fulfilled; link, then the lockfile write.
\* Linker.link only awaits calls that complete synchronously, so no I/O
\* callback runs between line 110 and the return.
InstallFetched ==
  /\ pc = "fetching"
  /\ fx.status = "fulfilled"
  /\ fetchResults' = fx.results
  /\ pc' = "done"
  /\ \/ \* link throws (lines 185-188)
        /\ exitCode' = 1
        /\ UNCHANGED <<linkResult, tree, lockfile, lockTmp, lockRead, lockWrites, store>>
     \/ \E failing \in LinkFailures(installPackages) :
          LET r == link(tree, installPackages, fx.results,
                        directDependencies(manifest, installPackages), failing)
          IN /\ tree' = r.tree
             /\ linkResult' = [linked |-> r.linked, errors |-> r.errors, removed |-> r.removed]
             /\ store' = chmodSync(store, r.chmod)
             /\ IF ~frozen
                  THEN /\ lockfile' = atomicWrite(Disk, lockfilePath,
                                                   write(installPackages, manifest))[lockfilePath]
                       /\ lockWrites' = lockWrites + 1
                       /\ UNCHANGED <<lockTmp, lockRead>>
                  ELSE UNCHANGED <<lockfile, lockTmp, lockRead, lockWrites>>
             /\ exitCode' = 0
  /\ UNCHANGED <<manifest, rc, sv, rs, frozen, packages, fx, tarballs>>

\* Line 110: fetchAll rejected; nothing catches it in installCommand, and
\* the entry point exits with 1 on a rejected command.
InstallFetchRejected ==
  /\ pc = "fetching"
  /\ fx.status = "rejected"
  /\ pc' = "done"
  /\ exitCode' = 1
  /\ UNCHANGED <<manifest, rc, sv, rs, frozen, lockfile, lockTmp, lockRead, lockWrites, packages,
                 fetchResults, linkResult, fetchVars, tree>>

Init ==
  /\ manifest \in Manifests
  /\ rs = [r \in {1} |-> NewResolver(ResolverOptions(FALSE, FALSE), {})]
  /\ frozen \in BOOLEAN
  /\ pc = "start"
  /\ exitCode = -1
  /\ lockfile \in InitialLockfiles
  /\ lockWrites = 0
  /\ lockTmp = NoLock
  /\ lockRead = NoRead
  /\ rc = NoCall
  /\ sv = NoSemver
  /\ packages = <<>>
  /\ fetchResults = <<>>
  /\ linkResult = <<>>
  /\ fx = IdleFetch
  /\ store = <<>>
  /\ tarballs = <<>>
  /\ tree = NoTree

Next ==
  \/ InstallStart
  \/ MetadataResponse
  \/ ResolveDependency
  \/ InstallResolved
  \/ TarballDownloaded
  \/ TarballExtracted
  \/ InstallFetched
  \/ InstallFetchRejected

Spec == Init /\ [][Next]_vars

(***************************************************************************)
(* installCommand on manifests with an optional dependency whose own       *)
(* dependencies fail in part: O@1.0.0 depends on B and on X, which the     *)
(* registry does not have                                                  *)
(***************************************************************************)
OptionalManifests ==
  { PackageJson(<<>>, <<>>, << <<"O", Caret(V(1,0,0))>> >>),
    PackageJson(<< <<"Y", Caret(V(1,0,0))>> >>, <<>>, << <<"O", Caret(V(1,0,0))>> >>),
    PackageJson(<< <<"B", Caret(V(1,0,0))>> >>, <<>>, << <<"O", Caret(V(1,0,0))>> >>) }

InitInstallOptional ==
  /\ manifest \in OptionalManifests
  /\ rs = [r \in {1} |-> NewResolver(ResolverOptions(FALSE, FALSE), {})]
  /\ frozen = FALSE
  /\ pc = "start"
  /\ exitCode = -1
  /\ lockfile = NoLock
  /\ lockWrites = 0
  /\ lockTmp = NoLock
  /\ lockRead = NoRead
  /\ rc = NoCall
  /\ sv = NoSemver
  /\ packages = <<>>
  /\ fetchResults = <<>>
  /\ linkResult = <<>>
  /\ fx = IdleFetch
  /\ store = <<>>
  /\ tarballs = <<>>
  /\ tree = NoTree

SpecInstallOptional == InitInstallOptional /\ [][Next]_vars

(***************************************************************************)
(* The same install run twice in succession: a second process runs         *)
(* installCommand with the same manifest and options on the disk (metadata *)
(* cache, store, tarball cache, lockfile, node_modules) the first left,    *)
(* before any metadata cache entry expires.                                *)
(***************************************************************************)
InitTwice ==
  /\ manifest \in Manifests
  /\ \E preferOffline \in BOOLEAN :
       rs = [r \in {1} |-> NewResolver(ResolverOptions(FALSE, preferOffline), {})]
  /\ frozen = FALSE
  /\ pc = "start"
  /\ exitCode = -1
  /\ lockfile = NoLock
  /\ lockWrites = 0
  /\ lockTmp = NoLock
  /\ lockRead = NoRead
  /\ rc = NoCall
  /\ sv = NoSemver
  /\ packages = <<>>
  /\ fetchResults = <<>>
  /\ linkResult = <<>>
  /\ fx = IdleFetch
  /\ store = <<>>
  /\ tarballs = <<>>
  /\ tree = NoTree

\* The first process has returned 0 and exited; the second one starts.
InstallAgain ==
  /\ pc = "done" /\ exitCode = 0
  /\ fx.calls = 1
  /\ pc' = "start"
  /\ exitCode' = -1
  /\ rs' = [r \in {1} |-> NewResolver(rs[1].opts, rs[1].diskCache)]
  /\ packages' = <<>>
  /\ fetchResults' = <<>>
  /\ linkResult' = <<>>
  /\ fx' = [IdleFetch EXCEPT !.calls = fx.calls]
  /\ UNCHANGED <<manifest, rc, sv, frozen, lockfile, lockTmp, lockRead, lockWrites, store, tarballs,
                 tree>>

NextTwice == Next \/ InstallAgain

SpecInstallTwice == InitTwice /\ [][NextTwice]_vars

(***************************************************************************)
(* Specification of the Linker: successive Linker.link calls of a project  *)
(* on the same flat map and fetch results                                  *)
(***************************************************************************)
Fetched(flat, keys) ==
  LET have == SeqFilter(flat, {flat[i] : i \in {j \in DOMAIN flat : Key(flat[j]) \in keys}})
  IN [i \in DOMAIN have |-> FetchResult(have[i], FALSE)]

\* <<manifest, flat map, keys with a fetch result>>
LinkInputs ==
  { <<e[1], e[2], Keys(e[2])>> : e \in EarlierInstalls }
    \cup { <<PackageJson(<< <<"A", Caret(V(1,0,0))>> >>, << <<"D", Caret(V(1,0,0))>> >>, <<>>),
             <<P("A", V(1,1,0)), P("B", V(1,0,5)), P("C", V(2,0,1)),
               [P("D", V(1,0,0)) EXCEPT !.dev = TRUE]>>,
             {<<"A", V(1,1,0)>>, <<"B", V(1,0,5)>>, <<"C", V(2,0,1)>>, <<"D", V(1,0,0)>>}>>,
           <<PackageJson(<< <<"B", Caret(V(1,0,0))>> >>, <<>>, << <<"O", Caret(V(1,0,0))>> >>),
             <<P("B", V(1,0,5)), [P("O", V(1,0,0)) EXCEPT !.optional = TRUE]>>,
             {<<"B", V(1,0,5)>>}>>,
           <<PackageJson(<< <<"Y", Caret(V(1,0,0))>>, <<"A", Caret(V(1,0,0))>> >>, <<>>, <<>>),
             <<P("A", V(1,1,0)), P("Y", V(1,0,0)), P("B", V(1,0,5)), P("C", V(2,0,1)),
               P("B", V(1,0,0))>>,
             {<<"A", V(1,1,0)>>, <<"Y", V(1,0,0)>>, <<"B", V(1,0,5)>>, <<"B", V(1,0,0)>>}>> }

NoLink == [linked |-> 0, errors |-> <<>>, removed |-> {}]

InitLink ==
  /\ \E in \in LinkInputs :
       /\ manifest = in[1]
       /\ packages = in[2]
       /\ fetchResults = Fetched(in[2], in[3])
  /\ rs = [r \in {1} |-> NewResolver(ResolverOptions(FALSE, FALSE), {})]
  /\ frozen = TRUE
  /\ pc = "idle"
  /\ exitCode = -1
  /\ lockfile = NoLock
  /\ lockWrites = 0
  /\ lockTmp = NoLock
  /\ lockRead = NoRead
  /\ rc = NoCall
  /\ sv = NoSemver
  /\ linkResult = NoLink
  /\ fx = IdleFetch
  /\ store = [sp \in {fetchResults[i].path : i \in DOMAIN fetchResults} |->
                [files |-> PayloadFiles, meta |-> TRUE, from |-> [of |-> <<sp[1], sp[2]>>, rev |-> 0],
                 exec |-> {}]]
  /\ tarballs = <<>>
  /\ tree = NoTree

\* new Linker(cwd, {directDependencies}).link(packages, fetchResults)
LinkCall ==
  /\ pc = "idle"
  /\ \E failing \in LinkFailures(packages) :
       LET r == link(tree, packages, fetchResults,
                     directDependencies(manifest, packages), failing)
       IN /\ tree' = r.tree
          /\ linkResult' = [linked |-> r.linked, errors |-> r.errors, removed |-> r.removed]
          /\ store' = chmodSync(store, r.chmod)
  /\ UNCHANGED <<manifest, rc, sv, rs, frozen, pc, exitCode, lockfile, lockTmp, lockRead, lockWrites, packages,
                 fetchResults, fx, tarballs>>

SpecLink == InitLink /\ [][LinkCall]_vars

(***************************************************************************)
(* Specification of the Linker over installs of different flat sets: after  *)
(* a link, package.json is edited and the next install hands another flat  *)
(* set to link, on the same node_modules                                   *)
(***************************************************************************)
\* The store directories of the fetch results.
Extracted(fetched) ==
  [sp \in {fetched[i].path : i \in DOMAIN fetched} |->
    [files |-> PayloadFiles, meta |-> TRUE, from |-> [of |-> <<sp[1], sp[2]>>, rev |-> 0],
     exec |-> {}]]

\* The next install has resolved and fetched the packages of an edited
\* package.json.
NextInstall ==
  /\ pc = "idle"
  /\ tree.marker
  /\ \E in \in LinkInputs :
       /\ in[2] # packages
       /\ manifest' = in[1]
       /\ packages' = in[2]
       /\ fetchResults' = Fetched(in[2], in[3])
       /\ store' = store @@ Extracted(Fetched(in[2], in[3]))
  /\ UNCHANGED <<rc, sv, rs, frozen, pc, exitCode, lockfile, lockTmp, lockRead, lockWrites,
                 linkResult, fx, tarballs, tree>>

NextRelink ==
  \/ LinkCall
  \/ NextInstall

SpecRelink == InitLink /\ [][NextRelink]_vars

(***************************************************************************)
(* LockfileManager.write against a reader in another process: the steps of *)
(* atomicWrite are separate, read() may run between any two of them.       *)
(***************************************************************************)
\* Packages of flat maps: scoped and unscoped names, with and without
\* dependency maps, bin map and flags.
LockPool ==
  { resolvedPkg("@s/p", V(1,0,0), VD("@s/p", V(1,0,0), <<>>, <<>>), FALSE, FALSE),
    resolvedPkg("@s/p", V(2,0,0),
                VD("@s/p", V(2,0,0), << <<"B", Caret(V(1,0,0))>> >>,
                   << <<"X", Caret(V(1,0,0))>> >>), TRUE, FALSE),
    resolvedPkg("A", V(1,1,0), Registry["A"][V(1,1,0)], FALSE, TRUE),
    resolvedPkg("B", V(1,0,0), Registry["B"][V(1,0,0)], FALSE, FALSE),
    resolvedPkg("D", V(1,0,0), Registry["D"][V(1,0,0)], TRUE, TRUE),
    resolvedPkg("Y", V(1,0,0), Registry["Y"][V(1,0,0)], FALSE, FALSE) }

LockFlats ==
  { flat \in UNION {[1..n -> LockPool] : n \in 0..MaxFlat} :
      \A i, j \in DOMAIN flat : i # j => Key(flat[i]) # Key(flat[j]) }

InitLockfile ==
  /\ manifest \in Manifests
  /\ packages \in LockFlats
  /\ lockfile \in {NoLock} \cup {write(e[2], e[1]) : e \in EarlierInstalls}
  /\ lockTmp = NoLock
  /\ lockRead = NoRead
  /\ rc = NoCall
  /\ sv = NoSemver
  /\ lockWrites = 0
  /\ pc = "ready"
  /\ rs = [r \in {1} |-> NewResolver(ResolverOptions(FALSE, FALSE), {})]
  /\ frozen = FALSE
  /\ exitCode = -1
  /\ fetchResults = <<>>
  /\ linkResult = NoLink
  /\ fx = IdleFetch
  /\ store = <<>>
  /\ tarballs = <<>>
  /\ tree = NoTree

SetDisk(d) ==
  /\ lockfile' = d[lockfilePath]
  /\ lockTmp' = TempOf(d)

\* lockfileManager.write(packages, packageJson), up to the creation of the
\* temp file.
WriteOpen ==
  /\ pc = "ready" /\ lockWrites = 0
  /\ SetDisk(writeFileSyncOpen(Disk, tempPath(lockfilePath), write(packages, manifest)))
  /\ pc' = "open"
  /\ UNCHANGED <<manifest, rc, sv, rs, frozen, exitCode, lockRead, lockWrites, packages, fetchResults,
                 linkResult, fx, store, tarballs, tree>>

WriteEnd ==
  /\ pc = "open"
  /\ SetDisk(writeFileSyncEnd(Disk, tempPath(lockfilePath), write(packages, manifest)))
  /\ pc' = "written"
  /\ UNCHANGED <<manifest, rc, sv, rs, frozen, exitCode, lockRead, lockWrites, packages, fetchResults,
                 linkResult, fx, store, tarballs, tree>>

Rename ==
  /\ pc = "written"
  /\ SetDisk(renameSync(Disk, tempPath(lockfilePath), lockfilePath))
  /\ lockWrites' = lockWrites + 1
  /\ pc' = "ready"
  /\ UNCHANGED <<manifest, rc, sv, rs, frozen, exitCode, lockRead, packages, fetchResults,
                 linkResult, fx, store, tarballs, tree>>

\* lockfileManager.read() of another process; a file that does not parse
\* is logged as a failure and read as null.
ReadLock ==
  /\ lockRead' = [content |-> read(lockfile), failed |-> IsPartial(lockfile)]
  /\ UNCHANGED <<manifest, rc, sv, rs, frozen, pc, exitCode, lockfile, lockTmp, lockWrites, packages,
                 fetchResults, linkResult, fx, store, tarballs, tree>>

NextLockfile == WriteOpen \/ WriteEnd \/ Rename \/ ReadLock

SpecLockfile == InitLockfile /\ [][NextLockfile]_vars

(***************************************************************************)
(* The lockfile check of a frozen install (install.ts 43-57) after an      *)
(* optional write of the lockfile for the manifest.                        *)
(***************************************************************************)
\* Manifests of the check: those of the installs and manifests with a
\* changed, an added and an empty range.
CheckManifests ==
  Manifests \cup
  { PackageJson(<< <<"A", Tilde(V(1,0,0))>> >>, <<>>, <<>>),
    PackageJson(<< <<"A", Caret(V(1,0,0))>>, <<"B", Star>> >>, <<>>, <<>>),
    PackageJson(<< <<"A", Empty>> >>, <<>>, <<>>),
    PackageJson(<<>>, << <<"D", Caret(V(1,0,0))>> >>, <<>>),
    PackageJson(<<>>, <<>>, <<>>) }

InitUpToDate ==
  /\ manifest \in CheckManifests
  /\ packages \in {<<>>, <<P("A", V(1,1,0)), P("B", V(1,0,5)), P("C", V(2,0,1))>>}
  /\ lockfile \in {NoLock}
                   \cup {write(<<>>, m) : m \in CheckManifests}
                   \cup {[write(<<>>, m) EXCEPT !.version = 2] : m \in CheckManifests}
  /\ lockTmp = NoLock
  /\ lockRead = NoRead
  /\ rc = NoCall
  /\ sv = NoSemver
  /\ lockWrites = 0
  /\ pc = "ready"
  /\ rs = [r \in {1} |-> NewResolver(ResolverOptions(FALSE, FALSE), {})]
  /\ frozen = TRUE
  /\ exitCode = -1
  /\ fetchResults = <<>>
  /\ linkResult = NoLink
  /\ fx = IdleFetch
  /\ store = <<>>
  /\ tarballs = <<>>
  /\ tree = NoTree

\* lockfileManager.write(packages, packageJson) of an earlier install.
WriteCall ==
  /\ pc = "ready" /\ lockWrites = 0
  /\ lockfile' = atomicWrite(Disk, lockfilePath, write(packages, manifest))[lockfilePath]
  /\ lockWrites' = lockWrites + 1
  /\ UNCHANGED <<manifest, rc, sv, rs, frozen, pc, exitCode, lockTmp, lockRead, packages, fetchResults,
                 linkResult, fx, store, tarballs, tree>>

\* if (frozen) { exists / isUpToDate / read / toResolvedPackages }
FrozenCheck ==
  /\ pc = "ready" /\ frozen
  /\ IF ~exists(lockfile) \/ ~isUpToDate(lockfile, manifest)
       THEN /\ pc' = "done" /\ exitCode' = 1
            /\ UNCHANGED packages
       ELSE /\ pc' = "current"
            /\ packages' = toResolvedPackages(read(lockfile))
            /\ UNCHANGED exitCode
  /\ UNCHANGED <<manifest, rc, sv, rs, frozen, lockfile, lockTmp, lockRead, lockWrites, fetchResults,
                 linkResult, fx, store, tarballs, tree>>

NextUpToDate == WriteCall \/ FrozenCheck

SpecUpToDate == InitUpToDate /\ [][NextUpToDate]_vars

(***************************************************************************)
(* One RegistryClient.fetch call against a registry that answers each      *)
(* request with any outcome.                                               *)
(***************************************************************************)
InitRetry ==
  /\ \E retries \in 0..MaxRetries : rc = newRegistryClient(retries)
  /\ sv = NoSemver
  /\ manifest = PackageJson(<<>>, <<>>, <<>>)
  /\ rs = [r \in {1} |-> NewResolver(ResolverOptions(FALSE, FALSE), {})]
  /\ frozen = FALSE
  /\ pc = "idle"
  /\ exitCode = -1
  /\ lockfile = NoLock
  /\ lockTmp = NoLock
  /\ lockRead = NoRead
  /\ lockWrites = 0
  /\ packages = <<>>
  /\ fetchResults = <<>>
  /\ linkResult = NoLink
  /\ fx = IdleFetch
  /\ store = <<>>
  /\ tarballs = <<>>
  /\ tree = NoTree

\* this.fetch(url, options): attempt = 0 and the first iteration.
FetchUrl ==
  /\ rc.st = "idle"
  /\ rc' = loopFetch(rc)
  /\ UNCHANGED <<manifest, sv, rs, installVars, fetchVars, tree>>

DoFetchSettled ==
  /\ rc.st = "requesting"
  /\ \E outcome \in Outcomes : rc' = doFetchSettled(rc, outcome)
  /\ UNCHANGED <<manifest, sv, rs, installVars, fetchVars, tree>>

SleepEnded ==
  /\ rc.st = "sleeping"
  /\ rc' = sleepEnded(rc)
  /\ UNCHANGED <<manifest, sv, rs, installVars, fetchVars, tree>>

NextRetry == FetchUrl \/ DoFetchSettled \/ SleepEnded

SpecRetry == InitRetry /\ [][NextRetry]_vars

(***************************************************************************)
(* satisfies(version, range) and maxSatisfying(versions, range) on         *)
(* releases and prereleases                                                *)
(***************************************************************************)
Pre(ma, mi, pa, n) == <<ma, mi, pa, <<n>>>>

SemverVersions == {V(1,0,0), Pre(1,0,0,1), V(1,2,3), Pre(1,2,4,1), Pre(2,0,0,1)}

SemverRanges ==
  {Star, Empty, Latest, Caret(V(1,0,0)), Tilde(V(1,2,3)), Caret(Pre(1,2,3,0)),
   Exact(Pre(1,0,0,1)), Caret(Pre(1,2,4,0))}

InitSemver ==
  /\ \E version \in SemverVersions, range \in SemverRanges :
       \E versions \in {S \in SUBSET SemverVersions : Cardinality(S) <= MaxVersions} :
         sv = [NoSemver EXCEPT !.version = version, !.range = range, !.versions = versions]
  /\ rc = NoCall
  /\ manifest = PackageJson(<<>>, <<>>, <<>>)
  /\ rs = [r \in {1} |-> NewResolver(ResolverOptions(FALSE, FALSE), {})]
  /\ frozen = FALSE
  /\ pc = "idle"
  /\ exitCode = -1
  /\ lockfile = NoLock
  /\ lockTmp = NoLock
  /\ lockRead = NoRead
  /\ lockWrites = 0
  /\ packages = <<>>
  /\ fetchResults = <<>>
  /\ linkResult = NoLink
  /\ fx = IdleFetch
  /\ store = <<>>
  /\ tarballs = <<>>
  /\ tree = NoTree

SatisfiesCall ==
  /\ sv.st = "idle"
  /\ sv' = [sv EXCEPT !.st = "satisfies", !.result = satisfies(sv.version, sv.range)]
  /\ UNCHANGED <<manifest, rc, rs, installVars, fetchVars, tree>>

MaxSatisfyingCall ==
  /\ sv.st = "idle"
  /\ sv' = [sv EXCEPT !.st = "maxSatisfying", !.best = maxSatisfying(sv.versions, sv.range)]
  /\ UNCHANGED <<manifest, rc, rs, installVars, fetchVars, tree>>

NextSemver == SatisfiesCall \/ MaxSatisfyingCall

SpecSemver == InitSemver /\ [][NextSemver]_vars

(***************************************************************************)
(* Resolver properties                                                     *)
(***************************************************************************)
FlatAsMap(flat) == {flat[i] : i \in DOMAIN flat}

Quiescent(s) == s.called /\ s.returned /\ s.ready = <<>> /\ DOMAIN s.inflight = {}

\* The version a call selects (NoVersion when it has none).
Selected(task) ==
  IF task.name \in DOMAIN Registry /\ task.meta
    THEN maxSatisfying(DOMAIN Registry[task.name], task.range)
    ELSE NoVersion

\* C3: for a fixed manifest and registry, two executions of Resolver.resolve
\* end with the same flat map whatever the order of completion: the same
\* name@version keys and, per key, the same record (optional and dev flags
\* included).
C3_FlatDeterministic ==
  (Runs = {1, 2} /\ Quiescent(rs[1]) /\ Quiescent(rs[2]))
    => FlatAsMap(rs[1].resolved) = FlatAsMap(rs[2].resolved)

\* C4: first writer wins: a record inserted into the flat map under a key is
\* never replaced by a later resolveDependency call.
C4_FirstWriterWins ==
  [][\A r \in Runs :
       rs[r].called =>
         \A k \in Keys(rs[r].resolved) :
           /\ k \in Keys(rs'[r].resolved)
           /\ Lookup(rs'[r].resolved, k) = Lookup(rs[r].resolved, k)]_vars

\* Two calls with different dev flags selected the same name@version and both
\* returned a node: the second one reused the first one's record.
C4_Witness ==
  \E r \in Runs : \E t, u \in DOMAIN rs[r].tasks :
    /\ t # u
    /\ rs[r].tasks[t].st = "fulfilled" /\ rs[r].tasks[u].st = "fulfilled"
    /\ rs[r].tasks[t].name = rs[r].tasks[u].name
    /\ Selected(rs[r].tasks[t]) = Selected(rs[r].tasks[u])
    /\ rs[r].tasks[t].dev # rs[r].tasks[u].dev
    /\ <<rs[r].tasks[t].name, Selected(rs[r].tasks[t])>> \in Keys(rs[r].resolved)

\* C5: for each package name at most one registry metadata request is in
\* flight at any time.
C5_OneRequestInFlight ==
  \A r \in Runs : \A n \in Names :
    Cardinality({q \in DOMAIN rs[r].inflight : rs[r].tasks[q].name = n}) <= 1

\* Two calls share one pending request.
C5_Witness ==
  \E r \in Runs : \E q \in DOMAIN rs[r].inflight : Len(rs[r].inflight[q]) >= 2

\* C10: when the resolution of an optional dependency fails, a warning and no
\* error is recorded for it and the flat set does not contain the package
\* that call selected.
OptionalFailureDemoted(s, t) ==
  /\ \E i \in DOMAIN s.warnings :
       s.warnings[i].kind = "optional" /\ s.warnings[i].name = s.tasks[t].name
  /\ Len(t) = 1 => \A i \in DOMAIN s.errors : s.errors[i].name # s.tasks[t].name

C10_OptionalFailureDropsPackage ==
  \A r \in Runs : \A t \in DOMAIN rs[r].tasks :
    (rs[r].returned /\ rs[r].tasks[t].optional /\ rs[r].tasks[t].st = "rejected")
      => /\ OptionalFailureDemoted(rs[r], t)
         /\ Selected(rs[r].tasks[t]) # NoVersion
              => <<rs[r].tasks[t].name, Selected(rs[r].tasks[t])>> \notin Keys(rs[r].resolved)

\* The greatest version of the registry document of d.name that d.range
\* accepts (NoVersion when there is none).
Greatest(d) ==
  IF d.name \in DOMAIN Registry
       /\ \E v \in DOMAIN Registry[d.name] : satisfies(v, d.range)
    THEN CHOOSE v \in DOMAIN Registry[d.name] :
           /\ satisfies(v, d.range)
           /\ \A w \in DOMAIN Registry[d.name] : satisfies(w, d.range) => compare(w, v) <= 0
    ELSE NoVersion

\* The declarations reached from decls, given those already followed.
RECURSIVE ReachedDecls(_, _, _)
ReachedDecls(s, decls, followed) ==
  LET fresh == decls \ followed
      next == UNION {Ran(transitiveDeps(s, Registry[d.name][Greatest(d)])) :
                       d \in {x \in fresh : Greatest(x) # NoVersion}}
  IN IF fresh = {} THEN followed
     ELSE ReachedDecls(s, next, followed \cup fresh)

Reached(s) == ReachedDecls(s, Ran(directDeps(s, manifest)), {})

\* C12: when every reached declaration has a satisfying version in the
\* registry, the flat set returned by resolve is exactly the set of
\* name@version reached from the direct dependencies, each version being the
\* greatest one its declaration accepts; for the manifest {A: ^1.0.0} it is
\* {A@1.1.0, B@1.0.5, C@2.0.1}.
C12_FlatIsReachableGreatest ==
  \A r \in Runs :
    (rs[r].returned /\ \A d \in Reached(rs[r]) : Greatest(d) # NoVersion) =>
      /\ Keys(rs[r].resolved) = {<<d.name, Greatest(d)>> : d \in Reached(rs[r])}
      /\ manifest = PackageJson(<< <<"A", Caret(V(1,0,0))>> >>, <<>>, <<>>) =>
           Keys(rs[r].resolved) = {<<"A", V(1,1,0)>>, <<"B", V(1,0,5)>>, <<"C", V(2,0,1)>>}

\* resolve has returned the three packages of the manifest {A: ^1.0.0}.
C12_Witness ==
  /\ manifest = PackageJson(<< <<"A", Caret(V(1,0,0))>> >>, <<>>, <<>>)
  /\ rs[1].returned
  /\ Len(rs[1].resolved) = 3
  /\ <<"B", V(1,0,5)>> \in Keys(rs[1].resolved)

(***************************************************************************)
(* installCommand properties                                               *)
(***************************************************************************)
\* C2: the lockfile is written only after a successful link step: no write
\* happens when linking reported an error for a package.
C2_LockfileOnlyAfterCleanLink ==
  lockWrites > 0 => linkResult.errors = <<>>

\* The file at the lockfile path is a lockfile of this format recording the
\* dependencies and devDependencies the manifest declares.
SameEntries(a, b) == {a[i] : i \in DOMAIN a} = {b[i] : i \in DOMAIN b}

LockfileCurrent ==
  /\ lockfile # NoLock
  /\ lockfile.version = LOCKFILE_VERSION
  /\ SameEntries(lockfile.dependencies, manifest.dependencies)
  /\ SameEntries(lockfile.devDependencies, manifest.devDependencies)

FrozenCheckFails == frozen /\ ~LockfileCurrent

\* C7: in frozen mode with a missing or out-of-date lockfile the only step
\* of installCommand is the return of failure: no resolution, fetch, link or
\* lockfile write, and the store, the module tree and the lockfile are
\* unchanged.
C7_FrozenFailsWithoutSideEffects ==
  [][FrozenCheckFails =>
       /\ pc' = "done" /\ exitCode' = 1
       /\ UNCHANGED <<rs, packages, fx, store, tarballs, tree, lockfile, lockTmp, lockRead, lockWrites,
                      fetchResults, linkResult>>]_vars

\* The manifest declares E, the lockfile has no key E, and the frozen
\* install has returned 1.
C7_Witness ==
  /\ frozen /\ pc = "done" /\ exitCode = 1
  /\ lockfile # NoLock /\ lockfile.version = LOCKFILE_VERSION
  /\ HasKey(manifest.dependencies, "E")
  /\ ~HasKey(lockfile.dependencies, "E")
  /\ ~rs[1].called /\ fx.calls = 0

LinkedKeys(t) ==
  {<<t.root[n].name, t.root[n].version>> : n \in DOMAIN t.root}
    \cup {<<t.nested[n].name, t.nested[n].version>> : n \in DOMAIN t.nested}

\* C8: in frozen mode with an up-to-date lockfile no metadata request is
\* made (the resolver is never run), the packages fetched and linked are
\* those of toResolvedPackages(lockfile), and the lockfile is not written.
C8_FrozenUsesLockfileOnly ==
  (frozen /\ LockfileCurrent) =>
    /\ ~rs[1].called /\ rs[1].requests = <<>>
    /\ lockWrites = 0
    /\ pc # "start" =>
         /\ packages = toResolvedPackages(read(lockfile))
         /\ fx.calls = 1 /\ fx.pkgs = packages
    /\ (pc = "done" /\ exitCode = 0) =>
         /\ LinkedKeys(tree) \subseteq Keys(packages)
         /\ linkResult.errors = <<>> => DOMAIN tree.root = NamesOf(packages)

\* A frozen install of an up-to-date lockfile has linked its packages.
C8_Witness ==
  /\ frozen /\ pc = "done" /\ exitCode = 0
  /\ LockfileCurrent
  /\ linkResult.errors = <<>>
  /\ DOMAIN tree.nested # {}

\* C11: installCommand returns 0 only when resolution reported no error,
\* every non-optional package was fetched, and no package was reported as
\* failed by the linker (stated here for the non-optional packages only).
C11_ExitZeroOnlyOnSuccess ==
  (pc = "done" /\ exitCode = 0) =>
    /\ ~frozen => rs[1].errors = <<>>
    /\ \A i \in DOMAIN installPackages :
         ~installPackages[i].optional =>
           /\ HasResult(fetchResults, Key(installPackages[i]))
           /\ \A e \in DOMAIN linkResult.errors :
                linkResult.errors[e].key # Key(installPackages[i])

(***************************************************************************)
(* Linker properties                                                       *)
(***************************************************************************)
\* The node resolution rule for name d started in the directory of the
\* package linked at loc: <<name>> is node_modules/<name>, <<parent, name>>
\* is node_modules/<parent>/node_modules/<name>.  The linker never creates a
\* node_modules directory inside a nested package.
NotFound == [name |-> "", version |-> <<>>, path |-> <<>>, fromCache |-> FALSE]

nodeResolve(t, loc, d) ==
  IF <<loc[1], d>> \in DOMAIN t.nested THEN t.nested[<<loc[1], d>>]
  ELSE IF d \in DOMAIN t.root THEN t.root[d]
  ELSE NotFound

\* The locations where package pkg is linked.
Locations(t, pkg) ==
  {<<n>> : n \in {m \in DOMAIN t.root : m = pkg.name /\ t.root[m].version = pkg.version}}
    \cup {loc \in DOMAIN t.nested : loc[2] = pkg.name /\ t.nested[loc].version = pkg.version}

LinkedCleanly == pc = "done" /\ exitCode = 0 /\ linkResult.errors = <<>>

\* C6: after a link without errors, for every linked package P and every
\* dependency D of P the node resolution rule started at P's location finds
\* a version of D that P's declared range accepts; and a copy of D is nested
\* under a parent only when the hoisted version of D is not one the parent's
\* range accepts, the nested copy being one it accepts.
C6_NodeResolutionFindsRequired ==
  LinkedCleanly =>
    /\ \A i \in DOMAIN installPackages :
         LET pkg == installPackages[i] IN
         \A loc \in Locations(tree, pkg) : \A k \in DOMAIN pkg.dependencies :
           LET found == nodeResolve(tree, loc, pkg.dependencies[k][1]) IN
           /\ found # NotFound
           /\ satisfies(found.version, pkg.dependencies[k][2])
    /\ \A at \in DOMAIN tree.nested :
         \A i \in DOMAIN installPackages :
           LET pkg == installPackages[i] IN
           (pkg.name = at[1] /\ <<at[1]>> \in Locations(tree, pkg)) =>
             /\ HasKey(pkg.dependencies, at[2])
             /\ satisfies(tree.nested[at].version, MapGet(pkg.dependencies, at[2]))
             /\ at[2] \in DOMAIN tree.root =>
                  ~satisfies(tree.root[at[2]].version, MapGet(pkg.dependencies, at[2]))

(***************************************************************************)
(* Fetcher properties                                                      *)
(***************************************************************************)
DigestMatches(data, integrity) == integrity.of = data

\* C1: tarball bytes are extracted into a store entry only if their digest
\* equals the digest declared by the package's integrity string, whether
\* they were downloaded or read from the tarball cache.
C1_OnlyVerifiedBytesExtracted ==
  \A i \in DOMAIN fx.tasks :
    fx.tasks[i].tarball # NoBytes => DigestMatches(fx.tasks[i].tarball, fx.pkgs[i].integrity)

\* C9: the final store path never holds less than a fully extracted package.
C9_StoreEntryNeverPartial ==
  \A sp \in DOMAIN store : store[sp].files = PayloadFiles

\* C13: when the bytes downloaded for a package with no store entry and no
\* cached tarball do not hash to the declared integrity, fetchPackage fails
\* and leaves no store directory and no tarball cache file for the package.
C13_MismatchLeavesNothing ==
  [][\A i \in DOMAIN fx.tasks :
       (/\ fx.tasks[i].st = "downloading"
        /\ fx'.calls = fx.calls
        /\ fx'.tasks[i].downloaded # NoBytes
        /\ ~DigestMatches(fx'.tasks[i].downloaded, fx.pkgs[i].integrity)
        /\ getStorePath(fx.pkgs[i]) \notin DOMAIN store
        /\ getTarballPath(fx.pkgs[i]) \notin DOMAIN tarballs)
       => /\ fx'.tasks[i].st = "failed"
          /\ Key(fx.pkgs[i]) \in Ran(fx'.failed)
          /\ getStorePath(fx.pkgs[i]) \notin DOMAIN store'
          /\ getTarballPath(fx.pkgs[i]) \notin DOMAIN tarballs']_vars

\* A non-optional fetch failed on bytes other than the declared ones, and
\* neither a store directory nor a cache file of the package exists.
C13_Witness ==
  \E i \in DOMAIN fx.tasks :
    /\ ~fx.pkgs[i].optional
    /\ fx.tasks[i].st = "failed"
    /\ fx.tasks[i].downloaded # NoBytes
    /\ ~DigestMatches(fx.tasks[i].downloaded, fx.pkgs[i].integrity)
    /\ getStorePath(fx.pkgs[i]) \notin DOMAIN store
    /\ getTarballPath(fx.pkgs[i]) \notin DOMAIN tarballs
    /\ fx.status = "rejected"

\* The fetchPackage calls of the current fetchAll that have not settled.
InFlight == {i \in DOMAIN fx.tasks : fx.tasks[i].st \in {"downloading", "extracting"}}

ConfiguredConcurrency == IF fx.opts.concurrency = 0 THEN 16 ELSE fx.opts.concurrency

\* C14: during fetchAll at most `concurrency` fetchPackage calls (16 when
\* unset) are in flight, and when no fetch fails every input package is
\* fetched exactly once and is in the results.
C14_ConcurrencyBounded ==
  /\ Cardinality(InFlight) <= ConfiguredConcurrency
  /\ \A b \in DOMAIN fx.batches : Len(fx.batches[b]) <= ConfiguredConcurrency
  /\ LET batches == createBatches(MaxBatched, DefaultConcurrency, 1) IN
     /\ \A b \in DOMAIN batches : Len(batches[b]) <= 16
     /\ \A k \in 1..MaxBatched :
          Cardinality({<<b, j>> \in (DOMAIN batches) \X (1..16) :
                         j \in DOMAIN batches[b] /\ batches[b][j] = k}) = 1
  /\ (fx.status = "fulfilled" /\ fx.failed = <<>>) =>
       /\ \A i \in DOMAIN fx.pkgs :
            /\ Cardinality({<<b, j>> \in (DOMAIN fx.batches) \X (DOMAIN fx.pkgs) :
                              j \in DOMAIN fx.batches[b] /\ fx.batches[b][j] = i}) = 1
            /\ Cardinality({k \in DOMAIN fx.results :
                              <<fx.results[k].name, fx.results[k].version>> = Key(fx.pkgs[i])}) = 1
       /\ Len(fx.results) = Len(fx.pkgs)

\* Three packages were fetched in two batches of at most two.
C14_Witness ==
  /\ fx.status = "fulfilled" /\ fx.failed = <<>>
  /\ fx.opts.concurrency = 2
  /\ Len(fx.pkgs) = 3 /\ Len(fx.batches) = 2
  /\ Len(fx.results) = 3

\* The calls of the current fetchAll settle one after the other, in list
\* order.
RECURSIVE RunInOrder(_)
RunInOrder(f) ==
  LET busy == {i \in DOMAIN f.x.tasks : f.x.tasks[i].st \in {"downloading", "extracting"}} IN
  IF busy = {} THEN f
  ELSE LET i == CHOOSE k \in busy : \A j \in busy : k <= j IN
       RunInOrder(fetchAllStep(
         IF f.x.tasks[i].st = "downloading"
           THEN tarballDownloaded(f, i, Served(f.x.pkgs[i].resolved))
           ELSE tarballExtracted(f, i, Unpacks(f.x.tasks[i].tarball))))

\* The store and tarball cache left by the run that takes the packages in
\* key order and settles them in that order.
ReferenceRun ==
  RunInOrder(fetchAll([x |-> IdleFetch, store |-> <<>>, tarballs |-> <<>>],
                      fx.opts, sortedEntries(fx.pkgs)))

FetchesSettled == fx.calls = 1 /\ fx.status # "running" /\ InFlight = {}

HoistedChoice(name) ==
  LET hint == directDependencies(manifest, installPackages)
      mine == {i \in DOMAIN installPackages : installPackages[i].name = name}
  IN IF HasKey(hint, name) /\ \E i \in mine : installPackages[i].version = MapGet(hint, name)
       THEN MapGet(hint, name)
       ELSE installPackages[CHOOSE i \in mine : \A j \in mine : i <= j].version

\* C16: after link, the package materialized at node_modules/<name> is one
\* package of that name in the flat set, of the version chosen as hoisted.
C16_RootHoldsHoistedVersion ==
  (pc = "done" /\ exitCode = 0) =>
    \A name \in DOMAIN tree.root :
      /\ tree.root[name].name = name
      /\ name \in NamesOf(installPackages)
      /\ tree.root[name].version = HoistedChoice(name)

\* Two versions of B are in the flat set and one of them is at
\* node_modules/B.
C16_Witness ==
  /\ pc = "done" /\ exitCode = 0
  /\ "B" \in DOMAIN tree.root
  /\ Cardinality({i \in DOMAIN installPackages : installPackages[i].name = "B"}) = 2

\* A link call that follows a link call: both without a reported error.
Relinked ==
  /\ tree.marker /\ linkResult.errors = <<>>
  /\ linkResult' # linkResult /\ linkResult'.errors = <<>>

\* C17 as stated: a second link on the same flat map and fetch results
\* yields the same module tree and changes nothing in node_modules but the
\* marker file.
C17_RelinkOnlyRewritesMarker ==
  [][Relinked => /\ tree' = tree
                 /\ linkResult'.removed = {}
                 /\ linkResult'.linked = 0]_vars

\* C17 amended: a second link on the same flat map and fetch results yields
\* the same module tree.
C17_RelinkSameTree ==
  [][Relinked => tree' = tree]_vars

\* A link call found the packages of an earlier call, removed them and
\* linked the tree again, a nested copy included.
C17_Witness ==
  /\ linkResult.removed # {}
  /\ linkResult.errors = <<>>
  /\ linkResult.linked = Cardinality(DOMAIN tree.root) + Cardinality(DOMAIN tree.nested)
  /\ DOMAIN tree.nested # {}

\* C18: Linker.link never modifies a store entry: every store directory has
\* the same files with the same content and mode bits after link as before.
C18_LinkLeavesStore ==
  [][store' = store]_vars

(***************************************************************************)
(* LockfileManager properties                                              *)
(***************************************************************************)
\* The keys of a flat map and of a lockfile document.
FlatKeys(flat) == {resolvedKey(flat[i]) : i \in DOMAIN flat}

DocKeys(doc) == {doc.packages[i][1] : i \in DOMAIN doc.packages}

\* C19: whenever write(flat, manifest) has completed, the map that
\* toResolvedPackages(read()) builds from the file has the keys of flat
\* and, per key, a package equal to the one of flat in name, version,
\* tarball URL, integrity, dependency / peer / optional maps, bin map and
\* optional / dev flags.
C19_LockfileRoundTrip ==
  [][lockWrites' = lockWrites + 1 =>
       LET doc == read(lockfile')
           back == toResolvedPackages(doc)
       IN /\ doc # NoLock
          /\ DocKeys(doc) = FlatKeys(packages)
          /\ Len(back) = Len(packages)
          /\ \A i \in DOMAIN back :
               \E j \in DOMAIN packages :
                 /\ doc.packages[i][1] = resolvedKey(packages[j])
                 /\ back[i] = packages[j]]_vars

C19_Witness ==
  /\ lockWrites = 1 /\ pc = "ready"
  /\ Len(packages) = 2
  /\ \E i, j \in DOMAIN packages :
       /\ packages[i].name = "@s/p" /\ packages[i].optional /\ packages[i].dependencies # <<>>
       /\ packages[j].name = "B" /\ ~packages[j].optional /\ packages[j].dependencies = <<>>
  /\ Len(toResolvedPackages(read(lockfile))) = 2

\* C20: a read() of another process, at any point of a write(), fails on
\* no partial file and returns the file at the lockfile path, and that
\* file only ever changes from the complete previous document to the
\* complete document being written.
C20_ReadSeesPreviousOrNew ==
  [][/\ lockRead' # lockRead =>
          /\ ~lockRead'.failed
          /\ lockRead'.content = read(lockfile')
     /\ lockfile' # lockfile => lockfile' = write(packages, manifest)]_vars

C20_Witness ==
  /\ pc = "open" /\ IsPartial(lockTmp)
  /\ lockfile # NoLock /\ lockfile # write(packages, manifest)
  /\ lockRead.content = lockfile

\* C21: the frozen check finds the lockfile up to date exactly when a
\* lockfile of the current schema version exists whose dependencies and
\* devDependencies maps have the entries (name and range) of the
\* manifest's maps, and always right after write(flat, manifest).
C21_UpToDateIffSameEntries ==
  [][(pc = "ready" /\ pc' # "ready") =>
       /\ pc' = "current" <=> LockfileCurrent
       /\ lockWrites = 1 => pc' = "current"]_vars

(***************************************************************************)
(* RegistryClient properties                                               *)
(***************************************************************************)
Transient(outcome) == outcome.error \in {"connection", "timeout"} \/ outcome.status >= 500

\* C22: a request is attempted at most `retries` times; every attempt but
\* the last ended in a connection error, a timeout or a status >= 500; the
\* wait after failed attempt k is min(1000 * 2^k, 10000) ms; a successful
\* response is the last attempt.
C22_RetryPolicy ==
  /\ Len(rc.log) <= rc.retries
  /\ \A k \in 1..(Len(rc.log) - 1) : Transient(rc.log[k])
  /\ \A k \in DOMAIN rc.delays :
       \/ k = 1 /\ rc.delays[k] = 1000
       \/ k = 2 /\ rc.delays[k] = 2000
       \/ k = 3 /\ rc.delays[k] = 4000
       \/ k = 4 /\ rc.delays[k] = 8000
       \/ k > 4 /\ rc.delays[k] = 10000
  /\ Len(rc.delays) <= Len(rc.log)
  /\ rc.st = "requesting" => Len(rc.delays) = Len(rc.log)

(***************************************************************************)
(* Properties of two installs in succession                                *)
(***************************************************************************)
SecondRun == (pc \in {"start", "resolving"} /\ fx.calls = 1) \/ fx.calls = 2

NoDownloadIssued == \A i \in DOMAIN fx.tasks : fx.tasks[i].st # "downloading"

MentionsPrereleaseOf(range, version) ==
  LET set == parseRange(range) IN
  \E g \in DOMAIN set : \E c \in DOMAIN set[g] :
    /\ Len(set[g][c].semver[4]) > 0
    /\ set[g][c].semver[1] = version[1]
    /\ set[g][c].semver[2] = version[2]
    /\ set[g][c].semver[3] = version[3]

\* C24: a version with a prerelease satisfies a range only if a comparator
\* of the range carries a prerelease on the same (major, minor, patch); the
\* ranges `*`, empty string and `latest` match no prerelease, and
\* maxSatisfying returns no prerelease for them.
C24_PrereleaseNeedsMatchingComparator ==
  /\ (sv.st = "satisfies" /\ sv.result /\ Len(sv.version[4]) > 0) =>
       MentionsPrereleaseOf(sv.range, sv.version)
  /\ (sv.st = "maxSatisfying" /\ sv.range.kind \in {"*", "", "latest"}
        /\ sv.best # NoVersion) =>
       Len(sv.best[4]) = 0

(***************************************************************************)
(* Resolver properties on cyclic dependency graphs                         *)
(***************************************************************************)
AllSettled(s) ==
  /\ s.called /\ s.returned
  /\ s.ready = <<>> /\ DOMAIN s.inflight = {}
  /\ \A t \in DOMAIN s.tasks : Settled(s, t)

\* C25: Resolver.resolve terminates on a registry with cycles: eventually
\* resolve has returned and every resolveDependency call it started has
\* settled for good, and the flat map always holds each name@version at
\* most once.
C25_ResolveTerminates ==
  /\ <>[]AllSettled(rs[1])
  /\ [](\A i, j \in DOMAIN rs[1].resolved :
          Key(rs[1].resolved[i]) = Key(rs[1].resolved[j]) => i = j)

C25_Witness ==
  /\ AllSettled(rs[1])
  /\ <<"F", "G">> \in DOMAIN rs[1].tasks
  /\ <<"F", "G", "F">> \in DOMAIN rs[1].tasks
  /\ <<"F", "G", "H">> \in DOMAIN rs[1].tasks
  /\ <<"F", "G", "H", "H">> \notin DOMAIN rs[1].tasks
  /\ Keys(rs[1].resolved) = {<<"F", V(1,0,0)>>, <<"G", V(1,0,0)>>, <<"H", V(1,0,0)>>}

(***************************************************************************)
(* Fetcher properties: cache hits                                          *)
(***************************************************************************)
\* The fetchPackage call i is started by the step.
Started(i) == fx'.calls # fx.calls \/ i \notin DOMAIN fx.tasks

\* C26: a fetchPackage call is a cache hit (no download, entry untouched)
\* only on a store entry that holds the package manifest and the .meta
\* sidecar, which only a completed extraction has; and a call that finds an
\* entry without them removes it and extracts again.
C26_HitOnlyOnCompleteEntry ==
  [][\A i \in DOMAIN fx'.tasks :
       LET storePath == getStorePath(fx'.pkgs[i]) IN
       Started(i) =>
         /\ fx'.tasks[i].cached =>
              /\ storePath \in DOMAIN store
              /\ store[storePath].meta /\ store[storePath].files = PayloadFiles
              /\ store'[storePath] = store[storePath]
              /\ fx'.tasks[i].st = "done" /\ fx'.tasks[i].downloaded = NoBytes
         /\ (/\ storePath \in DOMAIN store
             /\ ~(store[storePath].meta /\ "package.json" \in store[storePath].files)) =>
              /\ ~fx'.tasks[i].cached
              /\ fx'.tasks[i].st = "extracting"
              /\ store'[storePath] = EmptyDir]_vars

\* A second fetchAll hits the complete entry of one package and extracts
\* another one again over the entry a failed extraction left.
C26_Witness ==
  /\ fx.calls = 2
  /\ \E i, j \in DOMAIN fx.tasks :
       /\ fx.tasks[i].cached
       /\ fx.tasks[j].st = "extracting"
       /\ store[getStorePath(fx.pkgs[j])] = EmptyDir
       /\ getTarballPath(fx.pkgs[j]) \in DOMAIN tarballs

(***************************************************************************)
(* Fetcher properties: failures in fetchAll                                *)
(***************************************************************************)
FetchFailures(optional) ==
  {i \in DOMAIN fx.tasks : fx.tasks[i].st = "failed" /\ fx.pkgs[i].optional = optional}

InFetchResults(i) ==
  \E k \in DOMAIN fx.results :
    fx.results[k].name = fx.pkgs[i].name /\ fx.results[k].version = fx.pkgs[i].version

\* C27: a failed fetch of an optional package leaves no entry in the results
\* and does not fail fetchAll; a failed fetch of a non-optional package fails
\* fetchAll, and after it no fetchPackage of a later batch is started.
C27_OptionalFetchFailureTolerated ==
  /\ [](/\ \A i \in FetchFailures(TRUE) : ~InFetchResults(i)
        /\ (fx.status = "rejected") <=> (FetchFailures(FALSE) # {})
        /\ (fx.status = "fulfilled") =>
             \A i \in DOMAIN fx.pkgs :
               InFetchResults(i) <=> (i \in DOMAIN fx.tasks /\ fx.tasks[i].st = "done"))
  /\ [][(FetchFailures(FALSE) # {} /\ fx'.calls = fx.calls) =>
          DOMAIN fx'.tasks = DOMAIN fx.tasks]_vars

\* fetchAll was rejected by a non-optional package of the second batch after
\* the optional package of the first batch had failed; the third batch was
\* not started.
C27_Witness ==
  /\ fx.status = "rejected"
  /\ FetchFailures(TRUE) # {} /\ FetchFailures(FALSE) # {}
  /\ fx.batch < Len(fx.batches)
  /\ \A i \in Ran(fx.batches[Len(fx.batches)]) : i \notin DOMAIN fx.tasks

(***************************************************************************)
(* Linker properties: node_modules/.bin                                    *)
(***************************************************************************)
\* Every entry of .bin is the link of a binary of a package of the flat set.
BinOfFlat(t, flat) ==
  \A binName \in DOMAIN t.bin :
    \E i \in DOMAIN flat :
      /\ flat[i].name = t.bin[binName][1]
      /\ \E k \in DOMAIN flat[i].bin : flat[i].bin[k] = <<binName, t.bin[binName][2]>>

\* C28: after a link, every entry of node_modules/.bin is the link of a
\* binary of a package of the flat set that was linked; entries of earlier
\* links for packages that are no longer in the set are gone.
C28_BinRecreated ==
  [][packages' = packages => BinOfFlat(tree', packages')]_vars

(***************************************************************************)
(* Resolver properties: the returned flat map                              *)
(***************************************************************************)
\* Every required dependency of every package of flat is met by a package
\* of flat.
ClosedUnderDependencies(flat) ==
  \A i \in DOMAIN flat : \A k \in DOMAIN flat[i].dependencies :
    \E j \in DOMAIN flat :
      /\ flat[j].name = flat[i].dependencies[k][1]
      /\ satisfies(flat[j].version, flat[i].dependencies[k][2])

\* C29: whenever resolve has returned with an empty errors list, the flat
\* map is closed under required dependencies.
C29_FlatClosedWithoutErrors ==
  \A r \in Runs :
    (rs[r].returned /\ rs[r].errors = <<>>) => ClosedUnderDependencies(rs[r].resolved)

(***************************************************************************)
(* Resolver properties: the result after resolve has returned              *)
(***************************************************************************)
\* The install step that links and writes the lockfile.
LinkedAndWritten == pc = "fetching" /\ pc' = "done" /\ exitCode' = 0

\* C30: when resolve returns, every resolveDependency call it started has
\* settled; the flat map, warnings and errors it returned are not modified
\* afterwards, and the packages installCommand links and writes to the
\* lockfile are the ones it fetched.
C30_ResultStableAfterReturn ==
  /\ [](rs[1].returned => AllSettled(rs[1]))
  /\ [][(rs[1].returned /\ rs'[1].returned) =>
          /\ rs'[1].resolved = rs[1].resolved
          /\ rs'[1].warnings = rs[1].warnings
          /\ rs'[1].errors = rs[1].errors]_vars
  /\ [][(LinkedAndWritten /\ ~frozen) =>
          /\ Keys(installPackages) = Keys(packages)
          /\ DocKeys(lockfile') = FlatKeys(packages)]_vars

====
